---- MODULE Spec2Model ----
(***************************************************************************)
(* Model of the power-set state machine: a store keyed by fact type, the   *)
(* parameter / result bindings that derive a transition's requires and     *)
(* produces sets, and_then composition, and the StateMachine operations.   *)
(***************************************************************************)
EXTENDS Integers, Sequences, FiniteSets, TLC

\* ------------------------------------------------------------------------
\* Bounds of the model
\* ------------------------------------------------------------------------
\* payloads of the facts are the integers 0..MaxVal
MaxVal == 1
\* a function run on its own has at most MaxLeaves parameter and result
\* leaves in total
MaxLeaves == 3
\* the two functions of a composition have at most MaxPairLeaves parameter
\* and result leaves in total
MaxPairLeaves == 2
\* the three functions of a nested composition have at most MaxTripleLeaves
\* parameter and result leaves in total
MaxTripleLeaves == 3
MaxConvLen == 2
MaxRuns == 2
MaxPathDepth == 1
MaxPathNodes == 3
\* parameter / result shapes of the binding specification have at most
\* MaxShapeLen elements per tuple
MaxShapeLen == 2
\* the payloads of the documentation's program are at most MaxDocVal
MaxDocVal == 16
\* a transition dictionary nests folders at most MaxDictDepth deep and holds
\* at most MaxDictNodes entries and folders in total
MaxDictDepth == 2
MaxDictNodes == 3

\* the fact types (Truth implementors) of the modelled programs; Truth::id()
\* is TypeId::of::<T>(), modelled by the type's name
Ids == {"A", "B"}
Vals == 0..MaxVal

\* ------------------------------------------------------------------------
\* Shapes of parameters and results (the types implementing TransitionParam
\* and TransitionResult)
\* ------------------------------------------------------------------------
\* T: Truth
T(id) == [k |-> "T", id |-> id, sub |-> <<>>]
\* Option<T>, T: Truth (parameter)
Opt(id) == [k |-> "Opt", id |-> id, sub |-> <<>>]
\* Option<R>, R: TransitionResult (result)
OptR(r) == [k |-> "OptR", id |-> "", sub |-> <<r>>]
\* a tuple (A, B, ...); Tup(<<>>) is ()
Tup(s) == [k |-> "Tup", id |-> "", sub |-> s]

SeqsUpTo(S, n) == UNION {[1..m -> S] : m \in 0..n}

ParamLeaves == {T(id) : id \in Ids} \cup {Opt(id) : id \in Ids}
ResultLeaves == {T(id) : id \in Ids} \cup {OptR(T(id)) : id \in Ids}

\* ------------------------------------------------------------------------
\* The store: State = HashMap<Id, Box<dyn Any>>
\* ------------------------------------------------------------------------
EmptyStore == [x \in {} |-> 0]
ContainsKey(st, id) == id \in DOMAIN st
\* Insert that keeps the value already stored under id (or_insert)
InsertKeepOld(st, id, v) ==
    [x \in (DOMAIN st) \cup {id} |-> IF x \in DOMAIN st THEN st[x] ELSE v]
Insert(st, id, v) == [x \in (DOMAIN st) \cup {id} |-> IF x = id THEN v ELSE st[x]]
\* Remove that clears the whole map
RemoveAll(st, id) == [x \in {} |-> 0]
Remove(st, id) == [x \in (DOMAIN st) \ {id} |-> st[x]]

\* ------------------------------------------------------------------------
\* Parameter binding: TransitionParam
\* ------------------------------------------------------------------------
RECURSIVE CollectRequired(_, _)
RECURSIVE CollectRequiredSeq(_, _)
\* CollectRequired with Option<T> handed to the collector like T
CollectRequiredOptCounts(node, acc) ==
    IF acc.err THEN acc
    ELSE CASE node.k \in {"T", "Opt"} ->
                IF node.id \in acc.ids
                THEN [err |-> TRUE, ids |-> acc.ids]
                ELSE [err |-> FALSE, ids |-> acc.ids \cup {node.id}]
           [] node.k = "Tup" -> CollectRequiredSeq(node.sub, acc)

\* CollectRequired whose Option<T> adds T to the set (without the test for
\* duplicates)
CollectRequiredOptAdds(node, acc) ==
    IF acc.err THEN acc
    ELSE CASE node.k = "T" ->
                IF node.id \in acc.ids
                THEN [err |-> TRUE, ids |-> acc.ids]
                ELSE [err |-> FALSE, ids |-> acc.ids \cup {node.id}]
           [] node.k = "Opt" -> [err |-> FALSE, ids |-> acc.ids \cup {node.id}]
           [] node.k = "Tup" -> CollectRequiredSeq(node.sub, acc)

\* collect_required with the collector of required(): acc.ids is the set
\* built so far, acc.err is set once the collector returned Err
CollectRequired(node, acc) ==
    IF acc.err THEN acc
    ELSE CASE node.k = "T" ->
                IF node.id \in acc.ids
                THEN [err |-> TRUE, ids |-> acc.ids]
                ELSE [err |-> FALSE, ids |-> acc.ids \cup {node.id}]
           [] node.k = "Opt" -> acc
           [] node.k = "Tup" -> CollectRequiredSeq(node.sub, acc)

CollectRequiredSeq(s, acc) ==
    IF Len(s) = 0 THEN acc
    ELSE CollectRequiredSeq(Tail(s), CollectRequired(Head(s), acc))

\* TransitionParam::required
Required(node) ==
    LET r == CollectRequired(node, [err |-> FALSE, ids |-> {}])
    IN  IF r.err THEN [ok |-> FALSE, err |-> "DuplicateRequirement", ids |-> {}]
        ELSE [ok |-> TRUE, err |-> "", ids |-> r.ids]

RECURSIVE TakeFrom(_, _)
RECURSIVE TakeFromSeq(_, _)
\* TakeFrom whose Option<T> reads the value and leaves it in the store
TakeFromPeek(node, r) ==
    IF r.panic THEN r
    ELSE CASE node.k = "T" ->
                IF ContainsKey(r.st, node.id)
                THEN [st |-> Remove(r.st, node.id),
                      vals |-> Append(r.vals, <<r.st[node.id]>>),
                      panic |-> FALSE]
                ELSE [st |-> r.st, vals |-> r.vals, panic |-> TRUE]
           [] node.k = "Opt" ->
                IF ContainsKey(r.st, node.id)
                THEN [st |-> r.st,
                      vals |-> Append(r.vals, <<r.st[node.id]>>),
                      panic |-> FALSE]
                ELSE [st |-> r.st, vals |-> Append(r.vals, <<>>), panic |-> FALSE]
           [] node.k = "Tup" -> TakeFromSeq(node.sub, r)

\* TakeFrom whose T hands out the truth and leaves it in the store
TakeFromShares(node, r) ==
    IF r.panic THEN r
    ELSE CASE node.k = "T" ->
                IF ContainsKey(r.st, node.id)
                THEN [st |-> r.st,
                      vals |-> Append(r.vals, <<r.st[node.id]>>),
                      panic |-> FALSE]
                ELSE [st |-> r.st, vals |-> r.vals, panic |-> TRUE]
           [] node.k = "Opt" ->
                IF ContainsKey(r.st, node.id)
                THEN [st |-> Remove(r.st, node.id),
                      vals |-> Append(r.vals, <<r.st[node.id]>>),
                      panic |-> FALSE]
                ELSE [st |-> r.st, vals |-> Append(r.vals, <<>>), panic |-> FALSE]
           [] node.k = "Tup" -> TakeFromSeq(node.sub, r)

\* TakeFrom whose T hands out nothing, without failing, when the truth is
\* absent
TakeFromLenient(node, r) ==
    IF r.panic THEN r
    ELSE CASE node.k \in {"T", "Opt"} ->
                IF ContainsKey(r.st, node.id)
                THEN [st |-> Remove(r.st, node.id),
                      vals |-> Append(r.vals, <<r.st[node.id]>>),
                      panic |-> FALSE]
                ELSE [st |-> r.st, vals |-> Append(r.vals, <<>>), panic |-> FALSE]
           [] node.k = "Tup" -> TakeFromSeq(node.sub, r)

\* take_from: r.st is the store, r.vals the values extracted so far (one
\* entry per leaf: <<v>> for a value, <<>> for None), r.panic is set when
\* `expect("State does not contain a required truth")` fails
TakeFrom(node, r) ==
    IF r.panic THEN r
    ELSE CASE node.k = "T" ->
                IF ContainsKey(r.st, node.id)
                THEN [st |-> Remove(r.st, node.id),
                      vals |-> Append(r.vals, <<r.st[node.id]>>),
                      panic |-> FALSE]
                ELSE [st |-> r.st, vals |-> r.vals, panic |-> TRUE]
           [] node.k = "Opt" ->
                IF ContainsKey(r.st, node.id)
                THEN [st |-> Remove(r.st, node.id),
                      vals |-> Append(r.vals, <<r.st[node.id]>>),
                      panic |-> FALSE]
                ELSE [st |-> r.st, vals |-> Append(r.vals, <<>>), panic |-> FALSE]
           [] node.k = "Tup" -> TakeFromSeq(node.sub, r)

TakeFromSeq(s, r) ==
    IF Len(s) = 0 THEN r
    ELSE TakeFromSeq(Tail(s), TakeFrom(Head(s), r))

\* ------------------------------------------------------------------------
\* Result binding: TransitionResult
\* ------------------------------------------------------------------------
RECURSIVE CollectProduces(_, _)
RECURSIVE CollectProducesSeq(_, _)
\* CollectProduces with a collector that inserts without looking for the id
CollectProducesNoDupCheck(node, acc) ==
    IF acc.err THEN acc
    ELSE CASE node.k = "T" -> [err |-> FALSE, ids |-> acc.ids \cup {node.id}]
           [] node.k = "OptR" -> acc
           [] node.k = "Tup" -> CollectProducesSeq(node.sub, acc)

CollectProduces(node, acc) ==
    IF acc.err THEN acc
    ELSE CASE node.k = "T" ->
                IF node.id \in acc.ids
                THEN [err |-> TRUE, ids |-> acc.ids]
                ELSE [err |-> FALSE, ids |-> acc.ids \cup {node.id}]
           [] node.k = "OptR" -> acc
           [] node.k = "Tup" -> CollectProducesSeq(node.sub, acc)

CollectProducesSeq(s, acc) ==
    IF Len(s) = 0 THEN acc
    ELSE CollectProducesSeq(Tail(s), CollectProduces(Head(s), acc))

\* TransitionResult::produces
Produces(node) ==
    LET r == CollectProduces(node, [err |-> FALSE, ids |-> {}])
    IN  IF r.err THEN [ok |-> FALSE, err |-> "DuplicateProduction", ids |-> {}]
        ELSE [ok |-> TRUE, err |-> "", ids |-> r.ids]

\* The value a callable returns for its n-th Truth output, given the values
\* it was called with: the sum of the present arguments plus n, or plus the
\* function's own constant k when it has one
RECURSIVE ArgSum(_)
ArgSum(vals) ==
    IF Len(vals) = 0 THEN 0
    ELSE (IF Len(Head(vals)) = 0 THEN 0 ELSE Head(vals)[1]) + ArgSum(Tail(vals))

OutVal(base, n) == (base + n) % (MaxVal + 1)

\* the Truth values returned by function f called with vals, left to right
ReturnValue(f, vals) ==
    [n \in 1..Len(f.ret.sub) |->
        IF "k" \in DOMAIN f THEN ArgSum(vals) + f.k ELSE OutVal(ArgSum(vals), n)]

RECURSIVE InsertInto(_, _, _, _)
RECURSIVE InsertIntoSeq(_, _, _, _)
\* InsertInto that clears the stored Truth when an Option output is None
InsertIntoNoneClears(node, emit, out, r) ==
    CASE node.k = "T" ->
            [st |-> Insert(r.st, node.id, out[r.n + 1]), n |-> r.n + 1]
      [] node.k = "OptR" ->
            IF emit THEN InsertInto(node.sub[1], emit, out, r)
            ELSE IF node.sub[1].k = "T"
            THEN [st |-> Remove(r.st, node.sub[1].id), n |-> r.n]
            ELSE r
      [] node.k = "Tup" -> InsertIntoSeq(node.sub, emit, out, r)

\* InsertInto that drops a Truth instead of storing it
InsertIntoDiscard(node, emit, out, r) ==
    CASE node.k = "T" -> [st |-> r.st, n |-> r.n + 1]
      [] node.k = "OptR" ->
            IF emit THEN InsertInto(node.sub[1], emit, out, r) ELSE r
      [] node.k = "Tup" -> InsertIntoSeq(node.sub, emit, out, r)

\* insert_into of the value returned by a callable: out are the Truth values
\* it returned, r.st is the store and r.n the number of Truth outputs of the
\* shape passed so far; emit tells whether the callable returned Some for its
\* Option outputs
InsertInto(node, emit, out, r) ==
    CASE node.k = "T" ->
            [st |-> Insert(r.st, node.id, out[r.n + 1]), n |-> r.n + 1]
      [] node.k = "OptR" ->
            IF emit THEN InsertInto(node.sub[1], emit, out, r) ELSE r
      [] node.k = "Tup" -> InsertIntoSeq(node.sub, emit, out, r)

InsertIntoSeq(s, emit, out, r) ==
    IF Len(s) = 0 THEN r
    ELSE InsertIntoSeq(Tail(s), emit, out, InsertInto(Head(s), emit, out, r))

\* ------------------------------------------------------------------------
\* Transitions and conversion (IntoTransition, IntoTransitionMut,
\* IntoTransitionOnce)
\* ------------------------------------------------------------------------
\* A function is [params, ret, emit]: its parameter list, its return shape
\* and whether it returns Some for its Option outputs; the functions of
\* the documentation carry their constant k as well.
\* A transition is [func, requires, produces]; func is <<"fn", i, f>> for the
\* closure wrapping function f (the i-th function of the program) or
\* <<"seq", func1, func2>> for the closure built by and_then, or
\* <<"wrap", func>> for the closure move |args| (func)(args).
Ok(t) == [ok |-> TRUE, err |-> "", t |-> t]
Err(e) == [ok |-> FALSE, err |-> e, t |-> <<>>]

\* FnProc that inserts the result into the store as it was before the
\* extraction of the parameters
FnProcKeepsParams(i, f, r) ==
    LET p == TakeFrom(Tup(f.params), [st |-> r.st, vals |-> <<>>, panic |-> FALSE])
    IN  IF p.panic
        THEN [st |-> p.st, calls |-> r.calls, panic |-> TRUE]
        ELSE [st |-> InsertInto(f.ret, f.emit, ReturnValue(f, p.vals),
                                [st |-> r.st, n |-> 0]).st,
              calls |-> Append(r.calls, [i |-> i, args |-> p.vals]),
              panic |-> FALSE]

\* the closure of a converted function: extract the parameters, invoke the
\* callable, insert the result.  r.st is the store, r.calls the invocations
\* of wrapped callables so far, r.panic is set when an extraction failed.
FnProc(i, f, r) ==
    LET p == TakeFrom(Tup(f.params), [st |-> r.st, vals |-> <<>>, panic |-> FALSE])
    IN  IF p.panic
        THEN [st |-> p.st, calls |-> r.calls, panic |-> TRUE]
        ELSE [st |-> InsertInto(f.ret, f.emit, ReturnValue(f, p.vals),
                                [st |-> p.st, n |-> 0]).st,
              calls |-> Append(r.calls, [i |-> i, args |-> p.vals]),
              panic |-> FALSE]

RECURSIVE RunFunc(_, _)
\* (transition.func)(state)
RunFunc(func, r) ==
    IF r.panic THEN r
    ELSE IF func[1] = "fn" THEN FnProc(func[2], func[3], r)
    ELSE IF func[1] = "wrap" THEN RunFunc(func[2], r)
    ELSE RunFunc(func[3], RunFunc(func[2], r))

\* the production set a conversion stores with the transition
ConversionProduces(f) == Produces(f.ret)

\* IntoTransitionFn that drops the error of required() instead of returning it
IntoTransitionFnUnvalidated(i, f) ==
    LET p == ConversionProduces(f)
        q == Required(Tup(f.params))
    IN  IF ~p.ok THEN Err(p.err)
        ELSE Ok([func |-> <<"fn", i, f>>, requires |-> q.ids, produces |-> p.ids])

\* IntoTransitionFn that collects the requirements before the productions
IntoTransitionFnInputFirst(i, f) ==
    LET p == ConversionProduces(f)
        q == Required(Tup(f.params))
    IN  IF ~q.ok THEN Err(q.err)
        ELSE IF ~p.ok THEN Err(p.err)
        ELSE Ok([func |-> <<"fn", i, f>>, requires |-> q.ids, produces |-> p.ids])

\* into_transition / into_transition_mut / into_transition_once of a function
IntoTransitionFn(i, f) ==
    LET p == ConversionProduces(f)
        q == Required(Tup(f.params))
    IN  IF ~p.ok THEN Err(p.err)
        ELSE IF ~q.ok THEN Err(q.err)
        ELSE Ok([func |-> <<"fn", i, f>>, requires |-> q.ids, produces |-> p.ids])

\* ------------------------------------------------------------------------
\* Composition: and_then
\* ------------------------------------------------------------------------
RECURSIVE ReorderCheck(_, _)
\* ReorderCheck with the test of produces1 negated
ReorderCheckNegated(common, produces1) ==
    IF common = {} THEN TRUE
    ELSE LET id == CHOOSE x \in common : TRUE
         IN  IF id \in produces1 THEN FALSE
             ELSE ReorderCheck(common \ {id}, produces1)

\* the loop of combine_requirements over requires1.intersection(&requires2)
ReorderCheck(common, produces1) ==
    IF common = {} THEN TRUE
    ELSE LET id == CHOOSE x \in common : TRUE
         IN  IF id \notin produces1 THEN FALSE
             ELSE ReorderCheck(common \ {id}, produces1)

\* CombineRequirements that extends requires1 with all of requires2
CombineRequirementsAllRequired(requires1, produces1, requires2, produces2) ==
    IF ~ReorderCheck(requires1 \cap requires2, produces1)
    THEN [ok |-> FALSE, err |-> "UnsatisfiableReorder", requires |-> {}, produces |-> {}]
    ELSE [ok |-> TRUE, err |-> "",
          requires |-> requires1 \cup requires2,
          produces |-> produces2 \cup (produces1 \ requires2)]

\* CombineRequirements that extends produces2 with all of produces1
CombineRequirementsAllProduced(requires1, produces1, requires2, produces2) ==
    IF ~ReorderCheck(requires1 \cap requires2, produces1)
    THEN [ok |-> FALSE, err |-> "UnsatisfiableReorder", requires |-> {}, produces |-> {}]
    ELSE [ok |-> TRUE, err |-> "",
          requires |-> requires1 \cup (requires2 \ produces1),
          produces |-> produces2 \cup produces1]

\* CombineRequirements that leaves requires1 as it is
CombineRequirementsFirstOnly(requires1, produces1, requires2, produces2) ==
    IF ~ReorderCheck(requires1 \cap requires2, produces1)
    THEN [ok |-> FALSE, err |-> "UnsatisfiableReorder", requires |-> {}, produces |-> {}]
    ELSE [ok |-> TRUE, err |-> "",
          requires |-> requires1,
          produces |-> produces2 \cup (produces1 \ requires2)]

CombineRequirements(requires1, produces1, requires2, produces2) ==
    IF ~ReorderCheck(requires1 \cap requires2, produces1)
    THEN [ok |-> FALSE, err |-> "UnsatisfiableReorder", requires |-> {}, produces |-> {}]
    ELSE [ok |-> TRUE, err |-> "",
          requires |-> requires1 \cup (requires2 \ produces1),
          produces |-> produces2 \cup (produces1 \ requires2)]

\* AndThenBody whose closure calls t1.func twice before t2.func
AndThenBodyRepeatsFirst(r1, r2) ==
    IF ~r1.ok THEN r1
    ELSE IF ~r2.ok THEN r2
    ELSE LET c == CombineRequirements(r1.t.requires, r1.t.produces,
                                      r2.t.requires, r2.t.produces)
         IN  IF ~c.ok THEN Err(c.err)
             ELSE Ok([func |-> <<"seq", r1.t.func, <<"seq", r1.t.func, r2.t.func>>>>,
                      requires |-> c.requires, produces |-> c.produces])

\* AndThenBody that converts the second operand before the first
AndThenBodySecondFirst(r1, r2) ==
    IF ~r2.ok THEN r2
    ELSE IF ~r1.ok THEN r1
    ELSE LET c == CombineRequirements(r1.t.requires, r1.t.produces,
                                      r2.t.requires, r2.t.produces)
         IN  IF ~c.ok THEN Err(c.err)
             ELSE Ok([func |-> <<"seq", r1.t.func, r2.t.func>>,
                      requires |-> c.requires, produces |-> c.produces])

\* the body shared by the three and_then implementations; r1 and r2 are the
\* results of converting the two operands
AndThenBody(r1, r2) ==
    IF ~r1.ok THEN r1
    ELSE IF ~r2.ok THEN r2
    ELSE LET c == CombineRequirements(r1.t.requires, r1.t.produces,
                                      r2.t.requires, r2.t.produces)
         IN  IF ~c.ok THEN Err(c.err)
             ELSE Ok([func |-> <<"seq", r1.t.func, r2.t.func>>,
                      requires |-> c.requires, produces |-> c.produces])

\* AndThen::and_then
AndThen(r1, r2) == AndThenBody(r1, r2)
\* AndThenMut whose closure calls t2.func before t1.func
AndThenMutSwapped(r1, r2) ==
    LET r == AndThenBody(r1, r2)
    IN  IF ~r.ok THEN r
        ELSE Ok([func |-> <<"seq", r2.t.func, r1.t.func>>,
                 requires |-> r.t.requires, produces |-> r.t.produces])

\* AndThenMut::and_then
AndThenMut(r1, r2) == AndThenBody(r1, r2)
\* AndThenOnce::and_then
AndThenOnce(r1, r2) == AndThenBody(r1, r2)

AndThenV(variant, r1, r2) ==
    CASE variant = "Fn" -> AndThen(r1, r2)
      [] variant = "FnMut" -> AndThenMut(r1, r2)
      [] variant = "FnOnce" -> AndThenOnce(r1, r2)

\* ------------------------------------------------------------------------
\* Conversion between the variants
\* ------------------------------------------------------------------------
\* the variants a transition of the given variant converts into
ConvertsTo(from) ==
    CASE from = "Fn" -> {"Fn", "FnMut", "FnOnce"}
      [] from = "FnMut" -> {"FnMut", "FnOnce"}
      [] from = "FnOnce" -> {"FnOnce"}

\* IntoTransition for Transition
IntoTransition(t) == Ok(t)

\* IntoTransitionMut for Transition and for TransitionMut; the new transition
\* keeps the produces set of the old one
IntoTransitionMut(from, t) ==
    IF from = "Fn"
    THEN Ok([func |-> t.func, requires |-> t.requires, produces |-> t.produces])
    ELSE Ok(t)

\* IntoTransitionOnce that builds the new transition with no requirements
IntoTransitionOnceNoRequires(from, t) ==
    CASE from = "Fn" ->
            Ok([func |-> t.func, requires |-> {}, produces |-> t.produces])
      [] from = "FnMut" ->
            Ok([func |-> <<"wrap", t.func>>, requires |-> {},
                produces |-> t.produces])
      [] from = "FnOnce" -> Ok(t)

\* IntoTransitionOnce for Transition, TransitionMut and TransitionOnce
IntoTransitionOnce(from, t) ==
    CASE from = "Fn" ->
            Ok([func |-> t.func, requires |-> t.requires, produces |-> t.produces])
      [] from = "FnMut" ->
            Ok([func |-> <<"wrap", t.func>>, requires |-> t.requires,
                produces |-> t.produces])
      [] from = "FnOnce" -> Ok(t)

\* into_transition / into_transition_mut / into_transition_once of a
\* transition of variant from
IntoVariant(to, from, t) ==
    CASE to = "Fn" -> IntoTransition(t)
      [] to = "FnMut" -> IntoTransitionMut(from, t)
      [] to = "FnOnce" -> IntoTransitionOnce(from, t)

\* ------------------------------------------------------------------------
\* The state machine
\* ------------------------------------------------------------------------
\* prog:  the program under analysis: its functions, and how it composes them
\* state: StateMachine.state, the store
\* last:  the last operation of the program on the state machine: its
\*        arguments, the store it was called on (pre), what it returned (ret,
\*        out) and the invocations of wrapped callables it made (calls)
\* input: the argument of the binding / composition functions when these are
\*        analysed on their own; the transition values, or the transition
\*        dictionary, of the programs that keep one
VARIABLES prog, state, last, input
vars == <<prog, state, last, input>>

Variants == {"Fn", "FnMut", "FnOnce"}

Size(f) == Len(f.params) + Len(f.ret.sub)

\* functions with flat parameter lists and flat return tuples of at most n
\* leaves in total
Fns(n) ==
    {f \in {[params |-> p, ret |-> Tup(r), emit |-> e] :
                p \in SeqsUpTo(ParamLeaves, n), r \in SeqsUpTo(ResultLeaves, n),
                e \in BOOLEAN} :
        /\ Size(f) <= n
        /\ (~f.emit => \E j \in 1..Len(f.ret.sub) : f.ret.sub[j].k = "OptR")}

NoInput == <<>>

Op(op, i, id, val, ret, out, calls) ==
    [op |-> op, i |-> i, id |-> id, val |-> val, pre |-> state,
     ret |-> ret, out |-> out, calls |-> calls]

Panicked == last.ret = "Panic"

\* every store over the fact types
Stores == UNION {[D -> Vals] : D \in SUBSET Ids}

\* StateMachine::new, and the program: one function
Init ==
    /\ state = EmptyStore
    /\ last = [op |-> "new", i |-> 0, id |-> "", val |-> 0, pre |-> EmptyStore,
               ret |-> "Ok", out |-> <<>>, calls |-> <<>>]
    /\ input = NoInput
    /\ \E f \in Fns(MaxLeaves) : prog = [form |-> "f", fns |-> <<f>>]

\* the transition the program builds: fns[1] alone, or fns[1].and_then(fns[2])
\* with the and_then of the given variant
Built(variant) ==
    IF prog.form = "f" THEN IntoTransitionFn(1, prog.fns[1])
    ELSE AndThenV(variant, IntoTransitionFn(1, prog.fns[1]),
                           IntoTransitionFn(2, prog.fns[2]))

\* AllPresent with any() in the place of all()
AllPresentAny(requires, st) == \E id \in requires : ContainsKey(st, id)

\* transition.requires().iter().all(|id| self.state.contains_key(id))
AllPresent(requires, st) == \A id \in requires : ContainsKey(st, id)

\* StateMachine::set_truth
SetTruth(id, v) ==
    /\ ~Panicked
    /\ state' = Insert(state, id, v)
    /\ last' = Op("set_truth", 0, id, v, "Ok", <<>>, <<>>)
    /\ UNCHANGED <<prog, input>>

\* StateMachine::has_truth
HasTruth(id) ==
    /\ ~Panicked
    /\ last' = Op("has_truth", 0, id, 0,
                  IF ContainsKey(state, id) THEN "true" ELSE "false", <<>>, <<>>)
    /\ UNCHANGED <<prog, state, input>>

\* UnsetTruth that extracts with T::take_from
UnsetTruthExpect(id) ==
    /\ ~Panicked
    /\ LET r == TakeFrom(T(id), [st |-> state, vals |-> <<>>, panic |-> FALSE])
       IN  /\ state' = r.st
           /\ last' = Op("unset_truth", 0, id, 0,
                         IF r.panic THEN "Panic" ELSE "Some",
                         IF r.panic THEN <<>> ELSE r.vals[1], <<>>)
    /\ UNCHANGED <<prog, input>>

\* StateMachine::unset_truth
UnsetTruth(id) ==
    /\ ~Panicked
    /\ LET r == TakeFrom(Opt(id), [st |-> state, vals |-> <<>>, panic |-> FALSE])
       IN  /\ state' = r.st
           /\ last' = Op("unset_truth", 0, id, 0,
                         IF Len(r.vals[1]) = 0 THEN "None" ELSE "Some", r.vals[1], <<>>)
    /\ UNCHANGED <<prog, input>>

\* StateMachine::can_run(&f) for the i-th function of the program
CanRun(i) ==
    /\ ~Panicked
    /\ LET q == Required(Tup(prog.fns[i].params))
       IN  last' = Op("can_run", i, "", 0,
                      IF ~q.ok THEN q.err
                      ELSE IF AllPresent(q.ids, state) THEN "true" ELSE "false",
                      <<>>, <<>>)
    /\ UNCHANGED <<prog, state, input>>

\* StateMachine::can_run_transition / can_run_transition_mut /
\* can_run_transition_once on the transition the program built
CanRunTransition(variant) ==
    /\ ~Panicked
    /\ Built(variant).ok
    /\ last' = Op("can_run_transition", 0, "", 0,
                  IF AllPresent(Built(variant).t.requires, state) THEN "true" ELSE "false",
                  <<>>, <<>>)
    /\ UNCHANGED <<prog, state, input>>

\* RunResult without the test of the requirements
RunResultUnchecked(op, i, r) ==
    IF ~r.ok
    THEN /\ last' = Op(op, i, "", 0, r.err, <<>>, <<>>)
         /\ UNCHANGED state
    ELSE LET x == RunFunc(r.t.func, [st |-> state, calls |-> <<>>, panic |-> FALSE])
         IN  /\ state' = x.st
             /\ last' = Op(op, i, "", 0, IF x.panic THEN "Panic" ELSE "Ok", <<>>, x.calls)

\* StateMachine::run(transition) on the conversion result r
RunResult(op, i, r) ==
    IF ~r.ok
    THEN /\ last' = Op(op, i, "", 0, r.err, <<>>, <<>>)
         /\ UNCHANGED state
    ELSE IF AllPresent(r.t.requires, state)
    THEN LET x == RunFunc(r.t.func, [st |-> state, calls |-> <<>>, panic |-> FALSE])
         IN  /\ state' = x.st
             /\ last' = Op(op, i, "", 0, IF x.panic THEN "Panic" ELSE "Ok", <<>>, x.calls)
    ELSE /\ last' = Op(op, i, "", 0, "MissingRequirement", <<>>, <<>>)
         /\ UNCHANGED state

\* what StateMachine::run(transition) returns and leaves, on the conversion
\* result r and the store st
RunOutcome(r, st) ==
    IF ~r.ok THEN [ret |-> r.err, st |-> st, calls |-> <<>>]
    ELSE IF AllPresent(r.t.requires, st)
    THEN LET x == RunFunc(r.t.func, [st |-> st, calls |-> <<>>, panic |-> FALSE])
         IN  [ret |-> IF x.panic THEN "Panic" ELSE "Ok", st |-> x.st, calls |-> x.calls]
    ELSE [ret |-> "MissingRequirement", st |-> st, calls |-> <<>>]

\* StateMachine::run(f) for the i-th function of the program
Run(i) ==
    /\ ~Panicked
    /\ RunResult("run", i, IntoTransitionFn(i, prog.fns[i]))
    /\ UNCHANGED <<prog, input>>

\* StateMachine::run(f.and_then(g)?) with the and_then of the given variant
RunComposite(variant) ==
    /\ ~Panicked
    /\ prog.form = "fg"
    /\ RunResult("run_composite", 0, Built(variant))
    /\ UNCHANGED <<prog, input>>

Next ==
    \/ \E id \in Ids, v \in Vals : SetTruth(id, v)
    \/ \E id \in Ids : HasTruth(id)
    \/ \E id \in Ids : UnsetTruth(id)
    \/ CanRun(1)
    \/ \E v \in Variants : CanRunTransition(v)
    \/ Run(1)

Spec == Init /\ [][Next]_vars

\* ------------------------------------------------------------------------
\* Programs that compose two functions, on any store set_truth can build
\* ------------------------------------------------------------------------
\* StateMachine::run of the built transition of variant from after its
\* conversion into variant to
RunConverted(from, to) ==
    /\ ~Panicked
    /\ Built(from).ok
    /\ to \in ConvertsTo(from)
    /\ LET c == IntoVariant(to, from, Built(from).t)
           o == RunOutcome(c, state)
       IN  /\ state' = o.st
           /\ last' = Op("run_converted", 0, "", 0, o.ret,
                         [from |-> from, to |-> to, t |-> c], o.calls)
    /\ UNCHANGED <<prog, input>>

InitCompose ==
    /\ state \in Stores
    /\ last = [op |-> "setup", i |-> 0, id |-> "", val |-> 0, pre |-> state,
               ret |-> "Ok", out |-> <<>>, calls |-> <<>>]
    /\ input = NoInput
    /\ \E f \in Fns(MaxPairLeaves) :
            \E g \in Fns(MaxPairLeaves - Size(f)) :
                prog = [form |-> "fg", fns |-> <<f, g>>]

\* one operation on the prepared store
NextCompose ==
    \/ \E i \in 1..2 : last.op = "setup" /\ Run(i)
    \/ \E v \in Variants : last.op = "setup" /\ RunComposite(v)
    \/ \E v \in Variants : last.op = "setup" /\ CanRunTransition(v)
    \/ \E from, to \in Variants : last.op = "setup" /\ RunConverted(from, to)

SpecCompose == InitCompose /\ [][NextCompose]_vars

\* ------------------------------------------------------------------------
\* Programs that compose three functions, in either grouping
\* ------------------------------------------------------------------------
Groupings == {"left", "right"}

\* (f.and_then(g)?).and_then(h) for "left", f.and_then(g.and_then(h)?) for
\* "right"; the ? returns the error of the inner and_then
BuiltTriple(side, variant) ==
    LET c1 == IntoTransitionFn(1, prog.fns[1])
        c2 == IntoTransitionFn(2, prog.fns[2])
        c3 == IntoTransitionFn(3, prog.fns[3])
    IN  IF side = "left"
        THEN AndThenV(variant, AndThenV(variant, c1, c2), c3)
        ELSE AndThenV(variant, c1, AndThenV(variant, c2, c3))

\* what the program knows of a built transition: whether and_then returned
\* Ok, and the requires and produces sets
Summary(side, r) ==
    [side |-> side, ok |-> r.ok,
     requires |-> IF r.ok THEN r.t.requires ELSE {},
     produces |-> IF r.ok THEN r.t.produces ELSE {}]

\* the functions of at most n leaves that return Truths only (their
\* parameters may be Option<T>)
TripleFns(n) ==
    {f \in {[params |-> p, ret |-> Tup(r), emit |-> TRUE] :
                p \in SeqsUpTo(ParamLeaves, n),
                r \in SeqsUpTo({T(id) : id \in Ids}, n)} :
        Size(f) <= n}

\* the stores set_truth builds with the payload 0
InitTriple ==
    /\ state \in {st \in Stores : \A id \in DOMAIN st : st[id] = 0}
    /\ last = [op |-> "setup", i |-> 0, id |-> "", val |-> 0, pre |-> state,
               ret |-> "Ok", out |-> <<>>, calls |-> <<>>]
    /\ input = NoInput
    /\ \E f \in TripleFns(MaxTripleLeaves) :
            \E g \in TripleFns(MaxTripleLeaves - Size(f)) :
                \E h \in TripleFns(MaxTripleLeaves - Size(f) - Size(g)) :
                    prog = [form |-> "fgh", fns |-> <<f, g, h>>]

\* building the composite in the given grouping
ComposeTriple(side, variant) ==
    /\ last.op = "setup"
    /\ LET r == BuiltTriple(side, variant)
       IN  last' = Op("compose", 0, "", 0, IF r.ok THEN "Ok" ELSE r.err,
                      Summary(side, r), <<>>)
    /\ UNCHANGED <<prog, state, input>>

\* StateMachine::run on the composite built in the given grouping
RunTriple(side, variant) ==
    /\ last.op = "setup"
    /\ LET r == BuiltTriple(side, variant)
           o == RunOutcome(r, state)
       IN  /\ state' = o.st
           /\ last' = Op("run_triple", 0, "", 0, o.ret, Summary(side, r), o.calls)
    /\ UNCHANGED <<prog, input>>

NextTriple ==
    \/ \E side \in Groupings, v \in Variants : ComposeTriple(side, v)
    \/ \E side \in Groupings, v \in Variants : RunTriple(side, v)

SpecTriple == InitTriple /\ [][NextTriple]_vars

\* ------------------------------------------------------------------------
\* Programs that hold transition values: a TransitionOnce, which run and
\* run_unchecked take by value, and a Transition / TransitionMut, which
\* run_ref_unchecked / run_ref_mut_unchecked borrow
\* ------------------------------------------------------------------------
\* input.once:  the program still owns its TransitionOnce
\* input.execs: how often the procedure of the TransitionOnce was executed
InitOwned ==
    /\ state \in Stores
    /\ last = [op |-> "setup", i |-> 0, id |-> "", val |-> 0, pre |-> state,
               ret |-> "Ok", out |-> <<>>, calls |-> <<>>]
    /\ input = [once |-> TRUE, execs |-> 0]
    /\ \E f \in Fns(MaxPairLeaves) :
            /\ prog = [form |-> "f", fns |-> <<f>>]
            /\ IntoTransitionFn(1, f).ok

\* Consume that leaves the value with the caller
ConsumeCopies(h) == h

\* passing the TransitionOnce by value: the caller's binding is moved out
Consume(h) == [h EXCEPT !.once = FALSE]

\* the procedure was entered (it returned or ended in the fatal failure)
Executed(ret) == ret \in {"Ok", "Panic"}

\* Transition::run / TransitionMut::run / TransitionOnce::run
RunTransition(op, t) ==
    LET x == RunFunc(t.func, [st |-> state, calls |-> <<>>, panic |-> FALSE])
    IN  /\ state' = x.st
        /\ last' = Op(op, 1, "", 0, IF x.panic THEN "Panic" ELSE "Ok", <<>>, x.calls)

\* StateMachine::run(transition) with the program's TransitionOnce
RunOnce ==
    /\ ~Panicked
    /\ input.once
    /\ RunResult("run", 1, Built("FnOnce"))
    /\ input' = [Consume(input) EXCEPT
                    !.execs = IF Executed(last'.ret) THEN @ + 1 ELSE @]
    /\ UNCHANGED prog

\* StateMachine::run_unchecked(transition) with the program's TransitionOnce
RunUnchecked ==
    /\ ~Panicked
    /\ input.once
    /\ RunTransition("run_unchecked", Built("FnOnce").t)
    /\ input' = [Consume(input) EXCEPT !.execs = @ + 1]
    /\ UNCHANGED prog

\* StateMachine::run_ref_unchecked(&transition)
RunRefUnchecked ==
    /\ ~Panicked
    /\ RunTransition("run_ref_unchecked", Built("Fn").t)
    /\ UNCHANGED <<prog, input>>

\* StateMachine::run_ref_mut_unchecked(&mut transition)
RunRefMutUnchecked ==
    /\ ~Panicked
    /\ RunTransition("run_ref_mut_unchecked", Built("FnMut").t)
    /\ UNCHANGED <<prog, input>>

NextOwned ==
    \/ RunOnce
    \/ RunUnchecked
    \/ RunRefUnchecked
    \/ RunRefMutUnchecked
    \/ \E id \in Ids, v \in Vals : SetTruth(id, v)
    \/ \E id \in Ids : UnsetTruth(id)

SpecOwned == InitOwned /\ [][NextOwned]_vars

\* ------------------------------------------------------------------------
\* Transition dictionaries: Dictionary<K, TransitionMut>
\* ------------------------------------------------------------------------
\* A dictionary is [entries, folders]: a map from keys to values and a map
\* from keys to dictionaries.  An Option is <<>> (None) or <<v>> (Some(v)).
DictKeys == {"k1", "k2"}

\* Dictionary::new
NewDict == [entries |-> EmptyStore, folders |-> EmptyStore]

\* Dictionary::no_values, Dictionary::no_folders
NoValues(d) == DOMAIN d.entries = {}
NoFolders(d) == DOMAIN d.folders = {}

\* Dictionary::get, Dictionary::get_folder
Get(d, key) == IF key \in DOMAIN d.entries THEN <<d.entries[key]>> ELSE <<>>
GetFolder(d, key) == IF key \in DOMAIN d.folders THEN <<d.folders[key]>> ELSE <<>>

RECURSIVE GetDeep(_, _)
\* Dictionary::get_deep; panic is set when keys[0] is read from an empty slice
GetDeep(d, keys) ==
    IF Len(keys) = 1 THEN [panic |-> FALSE, val |-> Get(d, keys[1])]
    ELSE IF Len(keys) = 0 THEN [panic |-> TRUE, val |-> <<>>]
    ELSE IF keys[1] \in DOMAIN d.folders
         THEN GetDeep(d.folders[keys[1]], Tail(keys))
         ELSE [panic |-> FALSE, val |-> <<>>]

RECURSIVE FolderAt(_, _)
\* the folder reached by get_folder_mut along path (the dictionary itself
\* for the empty path)
FolderAt(d, path) ==
    IF Len(path) = 0 THEN <<d>>
    ELSE IF Head(path) \in DOMAIN d.folders
         THEN FolderAt(d.folders[Head(path)], Tail(path))
         ELSE <<>>

RECURSIVE InsertAt(_, _, _, _)
\* InsertAt that keeps the value already stored under the key
InsertAtKeepsOld(d, path, key, v) ==
    IF Len(path) = 0
    THEN IF key \in DOMAIN d.entries THEN d
         ELSE [d EXCEPT !.entries = Insert(d.entries, key, v)]
    ELSE [d EXCEPT !.folders[Head(path)] = InsertAt(@, Tail(path), key, v)]

\* Dictionary::insert(key, v) on the folder at path
InsertAt(d, path, key, v) ==
    IF Len(path) = 0 THEN [d EXCEPT !.entries = Insert(d.entries, key, v)]
    ELSE [d EXCEPT !.folders[Head(path)] = InsertAt(@, Tail(path), key, v)]

RECURSIVE InsertFolderAt(_, _, _, _)
\* Dictionary::insert_folder(key, folder) on the folder at path
InsertFolderAt(d, path, key, folder) ==
    IF Len(path) = 0 THEN [d EXCEPT !.folders = Insert(d.folders, key, folder)]
    ELSE [d EXCEPT !.folders[Head(path)] = InsertFolderAt(@, Tail(path), key, folder)]

RECURSIVE NodeCount(_)
RECURSIVE FolderNodes(_, _)
\* value_count plus folder_count, summed over the dictionary and its folders
NodeCount(d) == Cardinality(DOMAIN d.entries) + FolderNodes(d, DOMAIN d.folders)
FolderNodes(d, ks) ==
    IF ks = {} THEN 0
    ELSE LET k == CHOOSE x \in ks : TRUE
         IN  1 + NodeCount(d.folders[k]) + FolderNodes(d, ks \ {k})

RECURSIVE RunnableTransitions(_, _)
\* RunnableTransitions without the test of can_run_transition_mut
RunnableTransitionsAll(d, st) ==
    LET sub == [k \in DOMAIN d.folders |-> RunnableTransitions(d.folders[k], st)]
    IN  [entries |-> d.entries,
         folders |-> [k \in {k \in DOMAIN sub : ~(NoValues(sub[k]) /\ NoFolders(sub[k]))}
                        |-> sub[k]]]

\* RunnableTransitions that inserts every folder's result
RunnableTransitionsUnpruned(d, st) ==
    LET sub == [k \in DOMAIN d.folders |-> RunnableTransitions(d.folders[k], st)]
    IN  [entries |-> [k \in {k \in DOMAIN d.entries :
                                AllPresent(d.entries[k].requires, st)}
                        |-> d.entries[k]],
         folders |-> sub]

\* TransitionDictionary::runnable_transitions on the store st: the entries
\* that can run, and the folders whose own result is not empty
RunnableTransitions(d, st) ==
    LET sub == [k \in DOMAIN d.folders |-> RunnableTransitions(d.folders[k], st)]
    IN  [entries |-> [k \in {k \in DOMAIN d.entries :
                                AllPresent(d.entries[k].requires, st)}
                        |-> d.entries[k]],
         folders |-> [k \in {k \in DOMAIN sub : ~(NoValues(sub[k]) /\ NoFolders(sub[k]))}
                        |-> sub[k]]]

\* the functions the program adds to its dictionary:
\* fn insert_a() -> A, fn use_a(a: A), fn use_ab(a: A, b: B) and, not
\* convertible, fn twice(a: A, b: A)
DictFns ==
    <<[params |-> <<>>, ret |-> Tup(<<T("A")>>), emit |-> TRUE],
      [params |-> <<T("A")>>, ret |-> Tup(<<>>), emit |-> TRUE],
      [params |-> <<T("A"), T("B")>>, ret |-> Tup(<<>>), emit |-> TRUE],
      [params |-> <<T("A"), T("A")>>, ret |-> Tup(<<>>), emit |-> TRUE]>>

\* the stores set_truth builds with the payload 0
InitDict ==
    /\ state \in {st \in Stores : \A id \in DOMAIN st : st[id] = 0}
    /\ last = [op |-> "setup", i |-> 0, id |-> "", val |-> 0, pre |-> state,
               ret |-> "Ok", out |-> <<>>, calls |-> <<>>]
    /\ input = [dict |-> NewDict]
    /\ prog = [form |-> "dict", fns |-> DictFns]

\* the key paths of folders, and of entries
FolderPaths == SeqsUpTo(DictKeys, MaxDictDepth)
EntryPaths == SeqsUpTo(DictKeys, MaxDictDepth + 1) \ {<<>>}

\* TransitionDictionary::add_transition(key, f) with the i-th function, on
\* the folder at path; last.out keeps the returned Option (old) and the
\* dictionary as it was before the call
AddTransition(path, key, i) ==
    /\ FolderAt(input.dict, path) # <<>>
    /\ LET r == IntoTransitionFn(i, prog.fns[i])
           old == Get(FolderAt(input.dict, path)[1], key)
       IN  IF ~r.ok
           THEN /\ last' = Op("add_transition", i, "", 0, r.err,
                              [path |-> path, key |-> key, old |-> <<>>,
                               before |-> input.dict], <<>>)
                /\ UNCHANGED input
           ELSE /\ NodeCount(input.dict) + (IF old = <<>> THEN 1 ELSE 0) <= MaxDictNodes
                /\ input' = [dict |-> InsertAt(input.dict, path, key, r.t)]
                /\ last' = Op("add_transition", i, "", 0, "Ok",
                              [path |-> path, key |-> key, old |-> old,
                               before |-> input.dict], <<>>)
    /\ UNCHANGED <<prog, state>>

\* Dictionary::insert_folder(key, Dictionary::new()) on the folder at path
InsertFolder(path, key) ==
    /\ Len(path) < MaxDictDepth
    /\ FolderAt(input.dict, path) # <<>>
    /\ LET d == InsertFolderAt(input.dict, path, key, NewDict)
       IN  /\ NodeCount(d) <= MaxDictNodes
           /\ input' = [dict |-> d]
    /\ last' = Op("insert_folder", 0, "", 0, "Ok",
                  [path |-> path, key |-> key,
                   old |-> GetFolder(FolderAt(input.dict, path)[1], key)], <<>>)
    /\ UNCHANGED <<prog, state>>

\* transitions.runnable_transitions(&state_machine)
Runnables ==
    /\ last' = Op("runnable_transitions", 0, "", 0, "Ok",
                  RunnableTransitions(input.dict, state), <<>>)
    /\ UNCHANGED <<prog, state, input>>

NextDict ==
    \/ \E path \in FolderPaths, key \in DictKeys, i \in 1..Len(DictFns) :
            AddTransition(path, key, i)
    \/ \E path \in FolderPaths, key \in DictKeys : InsertFolder(path, key)
    \/ Runnables

SpecDict == InitDict /\ [][NextDict]_vars

\* ------------------------------------------------------------------------
\* The program of the documentation: insert_a, insert_b, add_one, combine
\* ------------------------------------------------------------------------
\* fn insert_a() -> A { A(5) }
insert_a == [params |-> <<>>, ret |-> Tup(<<T("A")>>), emit |-> TRUE, k |-> 5]
\* fn insert_b() -> B { B(10) }
insert_b == [params |-> <<>>, ret |-> Tup(<<T("B")>>), emit |-> TRUE, k |-> 10]
\* fn add_one(a: A) -> A { A(a.0 + 1) }
add_one == [params |-> <<T("A")>>, ret |-> Tup(<<T("A")>>), emit |-> TRUE, k |-> 1]
\* fn combine(a: A, b: B) -> A { A(a.0 + b.0) }
combine ==
    [params |-> <<T("A"), T("B")>>, ret |-> Tup(<<T("A")>>), emit |-> TRUE, k |-> 0]

DocFns == <<insert_a, insert_b, add_one, combine>>

InitExample ==
    /\ state = EmptyStore
    /\ last = [op |-> "new", i |-> 0, id |-> "", val |-> 0, pre |-> EmptyStore,
               ret |-> "Ok", out |-> <<>>, calls |-> <<>>]
    /\ input = NoInput
    /\ prog = [form |-> "doc", fns |-> DocFns]

\* the payloads stay within MaxDocVal
NextExample ==
    \/ \E i \in 1..Len(DocFns) :
            Run(i) /\ \A id \in DOMAIN state' : state'[id] <= MaxDocVal
    \/ \E i \in 1..Len(DocFns) : CanRun(i)
    \/ \E id \in Ids : HasTruth(id)
    \/ \E id \in Ids : UnsetTruth(id)

SpecExample == InitExample /\ [][NextExample]_vars

\* ------------------------------------------------------------------------
\* The bindings on their own: required() and produces() of a shape
\* ------------------------------------------------------------------------
\* tuples of up to two leaves, written out
LeafTuples(L) ==
    {Tup(<<>>)} \cup {Tup(<<a>>) : a \in L} \cup {Tup(<<a, b>>) : a \in L, b \in L}

ParamElems == ParamLeaves \cup LeafTuples(ParamLeaves)
ParamShapes == ParamElems \cup {Tup(s) : s \in SeqsUpTo(ParamElems, MaxShapeLen)}

ResultElems ==
    ResultLeaves \cup LeafTuples(ResultLeaves)
        \cup {OptR(t) : t \in LeafTuples(ResultLeaves)}
ResultShapes == ResultElems \cup {Tup(s) : s \in SeqsUpTo(ResultElems, MaxShapeLen)}

NoProg == [form |-> "none", fns |-> <<>>]

InitBinding ==
    /\ prog = NoProg
    /\ state = EmptyStore
    /\ last = [op |-> "setup", i |-> 0, id |-> "", val |-> 0, pre |-> state,
               ret |-> "Ok", out |-> {}, calls |-> <<>>]
    /\ \/ \E s \in ParamShapes : input = [kind |-> "param", shape |-> s]
       \/ \E s \in ResultShapes : input = [kind |-> "result", shape |-> s]

\* P::required() for the parameter shape P
ApplyRequired ==
    /\ last.op = "setup"
    /\ input.kind = "param"
    /\ LET r == Required(input.shape)
       IN  last' = Op("required", 0, "", 0, IF r.ok THEN "Ok" ELSE r.err, r.ids, <<>>)
    /\ UNCHANGED <<prog, state, input>>

\* R::produces() for the result shape R
ApplyProduces ==
    /\ last.op = "setup"
    /\ input.kind = "result"
    /\ LET r == Produces(input.shape)
       IN  last' = Op("produces", 0, "", 0, IF r.ok THEN "Ok" ELSE r.err, r.ids, <<>>)
    /\ UNCHANGED <<prog, state, input>>

NextBinding == ApplyRequired \/ ApplyProduces

SpecBinding == InitBinding /\ [][NextBinding]_vars

\* ------------------------------------------------------------------------
\* combine_requirements on its own
\* ------------------------------------------------------------------------
FactTypes == {"A", "B", "C"}

InitCombine ==
    /\ prog = NoProg
    /\ state = EmptyStore
    /\ last = [op |-> "setup", i |-> 0, id |-> "", val |-> 0, pre |-> state,
               ret |-> "Ok", out |-> <<>>, calls |-> <<>>]
    /\ input \in [requires1 : SUBSET FactTypes, produces1 : SUBSET FactTypes,
                  requires2 : SUBSET FactTypes, produces2 : SUBSET FactTypes]

\* combine_requirements(t1.requires, t1.produces, t2.requires, t2.produces)
Combine ==
    /\ last.op = "setup"
    /\ LET c == CombineRequirements(input.requires1, input.produces1,
                                    input.requires2, input.produces2)
       IN  last' = Op("combine", 0, "", 0, IF c.ok THEN "Ok" ELSE c.err,
                      [requires |-> c.requires, produces |-> c.produces], <<>>)
    /\ UNCHANGED <<prog, state, input>>

NextCombine == Combine

SpecCombine == InitCombine /\ [][NextCombine]_vars

\* ------------------------------------------------------------------------
\* Programs that only use a Dictionary<K, V>
\* ------------------------------------------------------------------------
\* Dictionary::get_mut
GetMut(d, key) == IF key \in DOMAIN d.entries THEN <<d.entries[key]>> ELSE <<>>

\* Dictionary::has
Has(d, key) == key \in DOMAIN d.entries

RECURSIVE GetDeepMut(_, _)
\* Dictionary::get_deep_mut; panic is set when keys[0] is read from an empty
\* slice
GetDeepMut(d, keys) ==
    IF Len(keys) = 1 THEN [panic |-> FALSE, val |-> GetMut(d, keys[1])]
    ELSE IF Len(keys) = 0 THEN [panic |-> TRUE, val |-> <<>>]
    ELSE IF keys[1] \in DOMAIN d.folders
         THEN GetDeepMut(d.folders[keys[1]], Tail(keys))
         ELSE [panic |-> FALSE, val |-> <<>>]

RECURSIVE HasDeep(_, _)
\* Dictionary::has_deep; panic is set when keys[0] is read from an empty slice
HasDeep(d, keys) ==
    IF Len(keys) = 1 THEN [panic |-> FALSE, val |-> Has(d, keys[1])]
    ELSE IF Len(keys) = 0 THEN [panic |-> TRUE, val |-> FALSE]
    ELSE IF keys[1] \in DOMAIN d.folders
         THEN HasDeep(d.folders[keys[1]], Tail(keys))
         ELSE [panic |-> FALSE, val |-> FALSE]

RECURSIVE RemoveDeep(_, _)
\* RemoveDeep that removes the folder stored under the last key as well
RemoveDeepWithFolder(d, keys) ==
    IF Len(keys) = 1
    THEN [panic |-> FALSE, val |-> Get(d, keys[1]),
          dict |-> [entries |-> Remove(d.entries, keys[1]),
                    folders |-> Remove(d.folders, keys[1])]]
    ELSE IF Len(keys) = 0 THEN [panic |-> TRUE, val |-> <<>>, dict |-> d]
    ELSE IF keys[1] \in DOMAIN d.folders
         THEN LET r == RemoveDeep(d.folders[keys[1]], Tail(keys))
              IN  [panic |-> r.panic, val |-> r.val,
                   dict |-> [d EXCEPT !.folders[keys[1]] = r.dict]]
         ELSE [panic |-> FALSE, val |-> <<>>, dict |-> d]

\* Dictionary::remove_deep: the returned Option, and the dictionary after
\* the call; panic is set when keys[0] is read from an empty slice
RemoveDeep(d, keys) ==
    IF Len(keys) = 1
    THEN [panic |-> FALSE, val |-> Get(d, keys[1]),
          dict |-> [d EXCEPT !.entries = Remove(d.entries, keys[1])]]
    ELSE IF Len(keys) = 0 THEN [panic |-> TRUE, val |-> <<>>, dict |-> d]
    ELSE IF keys[1] \in DOMAIN d.folders
         THEN LET r == RemoveDeep(d.folders[keys[1]], Tail(keys))
              IN  [panic |-> r.panic, val |-> r.val,
                   dict |-> [d EXCEPT !.folders[keys[1]] = r.dict]]
         ELSE [panic |-> FALSE, val |-> <<>>, dict |-> d]

RECURSIVE RemoveAt(_, _, _)
\* Dictionary::remove(key) on the folder at path
RemoveAt(d, path, key) ==
    IF Len(path) = 0 THEN [d EXCEPT !.entries = Remove(d.entries, key)]
    ELSE [d EXCEPT !.folders[Head(path)] = RemoveAt(@, Tail(path), key)]

RECURSIVE RemoveFolderAt(_, _, _)
\* Dictionary::remove_folder(key) on the folder at path
RemoveFolderAt(d, path, key) ==
    IF Len(path) = 0 THEN [d EXCEPT !.folders = Remove(d.folders, key)]
    ELSE [d EXCEPT !.folders[Head(path)] = RemoveFolderAt(@, Tail(path), key)]

\* the values V the program stores
DictVals == {"v", "w"}

\* the key paths the program passes to the *_deep functions, and the paths
\* of the folders it reaches with get_folder_mut
KeyPaths == SeqsUpTo(DictKeys, MaxPathDepth + 1)
ReachPaths == SeqsUpTo(DictKeys, MaxPathDepth)

\* Dictionary::new(); input.dict is the dictionary
InitPaths ==
    /\ state = EmptyStore
    /\ last = [op |-> "new", i |-> 0, id |-> "", val |-> 0, pre |-> EmptyStore,
               ret |-> "Ok", out |-> <<>>, calls |-> <<>>]
    /\ input = [dict |-> NewDict]
    /\ prog = NoProg

\* what an operation on the dictionary leaves in last: the path and key it
\* was given, the Option or bool it returned, and the dictionary before it
DictOp(op, path, key, ret, val) ==
    Op(op, 0, "", 0, ret, [path |-> path, key |-> key, val |-> val,
                           before |-> input.dict], <<>>)

Some(opt) == IF opt = <<>> THEN "None" ELSE "Some"

\* dict.insert(key, v) on the folder at path
DictInsert(path, key, v) ==
    /\ ~Panicked
    /\ FolderAt(input.dict, path) # <<>>
    /\ LET d == InsertAt(input.dict, path, key, v)
           old == Get(FolderAt(input.dict, path)[1], key)
       IN  /\ NodeCount(d) <= MaxPathNodes
           /\ input' = [dict |-> d]
           /\ last' = DictOp("insert", path, key, Some(old), old)
    /\ UNCHANGED <<prog, state>>

\* dict.insert_folder(key, Dictionary::new()) on the folder at path
DictInsertFolder(path, key) ==
    /\ ~Panicked
    /\ Len(path) < MaxPathDepth
    /\ FolderAt(input.dict, path) # <<>>
    /\ LET d == InsertFolderAt(input.dict, path, key, NewDict)
           old == GetFolder(FolderAt(input.dict, path)[1], key)
       IN  /\ NodeCount(d) <= MaxPathNodes
           /\ input' = [dict |-> d]
           /\ last' = DictOp("insert_folder", path, key, Some(old), old)
    /\ UNCHANGED <<prog, state>>

\* dict.remove(key) on the folder at path
DictRemove(path, key) ==
    /\ ~Panicked
    /\ FolderAt(input.dict, path) # <<>>
    /\ LET old == Get(FolderAt(input.dict, path)[1], key)
       IN  /\ input' = [dict |-> RemoveAt(input.dict, path, key)]
           /\ last' = DictOp("remove", path, key, Some(old), old)
    /\ UNCHANGED <<prog, state>>

\* dict.remove_folder(key) on the folder at path
DictRemoveFolder(path, key) ==
    /\ ~Panicked
    /\ FolderAt(input.dict, path) # <<>>
    /\ LET old == GetFolder(FolderAt(input.dict, path)[1], key)
       IN  /\ input' = [dict |-> RemoveFolderAt(input.dict, path, key)]
           /\ last' = DictOp("remove_folder", path, key, Some(old), old)
    /\ UNCHANGED <<prog, state>>

\* dict.remove_deep(keys)
DictRemoveDeep(keys) ==
    /\ ~Panicked
    /\ LET r == RemoveDeep(input.dict, keys)
       IN  /\ input' = [dict |-> r.dict]
           /\ last' = DictOp("remove_deep", keys, "",
                             IF r.panic THEN "Panic" ELSE Some(r.val), r.val)
    /\ UNCHANGED <<prog, state>>

\* dict.get_deep(keys)
DictGetDeep(keys) ==
    /\ ~Panicked
    /\ LET r == GetDeep(input.dict, keys)
       IN  last' = DictOp("get_deep", keys, "",
                          IF r.panic THEN "Panic" ELSE Some(r.val), r.val)
    /\ UNCHANGED <<prog, state, input>>

\* dict.get_deep_mut(keys)
DictGetDeepMut(keys) ==
    /\ ~Panicked
    /\ LET r == GetDeepMut(input.dict, keys)
       IN  last' = DictOp("get_deep_mut", keys, "",
                          IF r.panic THEN "Panic" ELSE Some(r.val), r.val)
    /\ UNCHANGED <<prog, state, input>>

\* dict.has_deep(keys)
DictHasDeep(keys) ==
    /\ ~Panicked
    /\ LET r == HasDeep(input.dict, keys)
       IN  last' = DictOp("has_deep", keys, "",
                          IF r.panic THEN "Panic"
                          ELSE IF r.val THEN "true" ELSE "false", <<>>)
    /\ UNCHANGED <<prog, state, input>>

NextPaths ==
    \/ \E path \in ReachPaths, key \in DictKeys, v \in DictVals : DictInsert(path, key, v)
    \/ \E path \in ReachPaths, key \in DictKeys : DictInsertFolder(path, key)
    \/ \E path \in ReachPaths, key \in DictKeys : DictRemove(path, key)
    \/ \E path \in ReachPaths, key \in DictKeys : DictRemoveFolder(path, key)
    \/ \E keys \in KeyPaths : DictRemoveDeep(keys)
    \/ \E keys \in KeyPaths : DictGetDeep(keys)
    \/ \E keys \in KeyPaths : DictGetDeepMut(keys)
    \/ \E keys \in KeyPaths : DictHasDeep(keys)

SpecPaths == InitPaths /\ [][NextPaths]_vars

\* ------------------------------------------------------------------------
\* Programs that run transitions from a runnable subset
\* ------------------------------------------------------------------------
\* the transitions add_transition stores for insert_a, use_a and use_ab
DictTransitions == {IntoTransitionFn(i, DictFns[i]).t : i \in 1..3}

\* the dictionaries a program builds with add_transition and insert_folder:
\* entries under any of the keys, and under any of the keys a folder holding
\* at most an entry k1
EntryMaps(keys) == UNION {[S -> DictTransitions] : S \in SUBSET keys}
SubDicts == {[entries |-> e, folders |-> EmptyStore] : e \in EntryMaps({"k1"})}
BuiltDicts ==
    {[entries |-> e, folders |-> f] :
        e \in EntryMaps(DictKeys),
        f \in UNION {[S -> SubDicts] : S \in SUBSET DictKeys}}

\* input.dict is the TransitionDictionary, input.held the dictionary that
\* runnable_transitions returned (<<>> before the first call), input.runs
\* the number of calls of run so far
InitRunnable ==
    /\ state \in {st \in Stores : \A id \in DOMAIN st : st[id] = 0}
    /\ last = [op |-> "setup", i |-> 0, id |-> "", val |-> 0, pre |-> state,
               ret |-> "Ok", out |-> <<>>, calls |-> <<>>]
    /\ \E d \in BuiltDicts : input = [dict |-> d, held |-> <<>>, runs |-> 0]
    /\ prog = [form |-> "dict", fns |-> DictFns]

\* let mut runnables = transitions.runnable_transitions(&state_machine)
HoldRunnables ==
    /\ ~Panicked
    /\ LET r == RunnableTransitions(input.dict, state)
       IN  /\ input' = [input EXCEPT !.held = <<r>>]
           /\ last' = Op("runnable_transitions", 0, "", 0, "Ok", r, <<>>)
    /\ UNCHANGED <<prog, state>>

\* runnables.run(&key, &mut state_machine)
DictRun(key) ==
    /\ ~Panicked
    /\ input.held # <<>>
    /\ input.runs < MaxRuns
    /\ input' = [input EXCEPT !.runs = @ + 1]
    /\ IF key \in DOMAIN input.held[1].entries
       THEN LET x == RunFunc(input.held[1].entries[key].func,
                             [st |-> state, calls |-> <<>>, panic |-> FALSE])
            IN  /\ state' = x.st
                /\ last' = Op("dict_run", 0, "", 0,
                              IF x.panic THEN "Panic" ELSE "Some",
                              [key |-> key], x.calls)
       ELSE /\ last' = Op("dict_run", 0, "", 0, "None", [key |-> key], <<>>)
            /\ UNCHANGED state
    /\ UNCHANGED prog

NextRunnable ==
    \/ HoldRunnables
    \/ \E key \in DictKeys : DictRun(key)

SpecRunnable == InitRunnable /\ [][NextRunnable]_vars

\* ------------------------------------------------------------------------
\* Programs that only convert a function
\* ------------------------------------------------------------------------
\* functions of up to MaxConvLen parameters and up to MaxConvLen outputs
ConvFns ==
    {[params |-> p, ret |-> Tup(r), emit |-> TRUE] :
        p \in SeqsUpTo(ParamLeaves, MaxConvLen),
        r \in SeqsUpTo(ResultLeaves, MaxConvLen)}

InitConvert ==
    /\ state = EmptyStore
    /\ last = [op |-> "new", i |-> 0, id |-> "", val |-> 0, pre |-> EmptyStore,
               ret |-> "Ok", out |-> <<>>, calls |-> <<>>]
    /\ input = NoInput
    /\ \E f \in ConvFns : prog = [form |-> "f", fns |-> <<f>>]

\* f.into_transition(), f.into_transition_mut() or f.into_transition_once()
Convert(variant) ==
    /\ last.op = "new"
    /\ LET r == IntoTransitionFn(1, prog.fns[1])
       IN  last' = Op("convert", 1, "", 0, IF r.ok THEN "Ok" ELSE r.err,
                      [variant |-> variant,
                       requires |-> IF r.ok THEN r.t.requires ELSE {},
                       produces |-> IF r.ok THEN r.t.produces ELSE {}], <<>>)
    /\ UNCHANGED <<prog, state, input>>

NextConvert == \E variant \in Variants : Convert(variant)

SpecConvert == InitConvert /\ [][NextConvert]_vars

\* ------------------------------------------------------------------------
\* Programs that only compose two functions
\* ------------------------------------------------------------------------
\* functions of up to MaxConvLen plain parameters and plain outputs
PlainFns ==
    {[params |-> p, ret |-> Tup(r), emit |-> TRUE] :
        p \in SeqsUpTo({T(id) : id \in Ids}, MaxConvLen),
        r \in SeqsUpTo({T(id) : id \in Ids}, MaxConvLen)}

InitAndThen ==
    /\ state = EmptyStore
    /\ last = [op |-> "new", i |-> 0, id |-> "", val |-> 0, pre |-> EmptyStore,
               ret |-> "Ok", out |-> <<>>, calls |-> <<>>]
    /\ input = NoInput
    /\ \E f \in PlainFns, g \in PlainFns : prog = [form |-> "fg", fns |-> <<f, g>>]

\* f.and_then(g) with the and_then of the given variant
Compose(variant) ==
    /\ last.op = "new"
    /\ LET r == Built(variant)
       IN  last' = Op("and_then", 0, "", 0, IF r.ok THEN "Ok" ELSE r.err,
                      [variant |-> variant,
                       requires |-> IF r.ok THEN r.t.requires ELSE {},
                       produces |-> IF r.ok THEN r.t.produces ELSE {}], <<>>)
    /\ UNCHANGED <<prog, state, input>>

NextAndThen == \E variant \in Variants : Compose(variant)

SpecAndThen == InitAndThen /\ [][NextAndThen]_vars

\* ------------------------------------------------------------------------
\* Programs that only set, test and take truths
\* ------------------------------------------------------------------------
InitStore ==
    /\ state = EmptyStore
    /\ last = [op |-> "new", i |-> 0, id |-> "", val |-> 0, pre |-> EmptyStore,
               ret |-> "Ok", out |-> <<>>, calls |-> <<>>]
    /\ input = NoInput
    /\ prog = NoProg

NextStore ==
    \/ \E id \in FactTypes, v \in Vals : SetTruth(id, v)
    \/ \E id \in FactTypes : HasTruth(id)
    \/ \E id \in FactTypes : UnsetTruth(id)

SpecStore == InitStore /\ [][NextStore]_vars

\* ------------------------------------------------------------------------
\* Properties
\* ------------------------------------------------------------------------
Errors == {"DuplicateRequirement", "DuplicateProduction", "UnsatisfiableReorder"}

\* the leaves of a shape, left to right through nested tuples (an Option is a
\* leaf whatever it wraps)
RECURSIVE LeafSeq(_)
RECURSIVE LeafSeqOf(_)
LeafSeq(node) == IF node.k = "Tup" THEN LeafSeqOf(node.sub) ELSE <<node>>
LeafSeqOf(s) == IF Len(s) = 0 THEN <<>> ELSE LeafSeq(Head(s)) \o LeafSeqOf(Tail(s))

\* the identifiers of the non-optional leaves, and whether one occurs twice
PlainIds(node) ==
    LET l == LeafSeq(node) IN {l[j].id : j \in {j \in 1..Len(l) : l[j].k = "T"}}
PlainTwice(node) ==
    LET l == LeafSeq(node)
    IN  \E i \in 1..Len(l), j \in 1..Len(l) :
            i < j /\ l[i].k = "T" /\ l[j].k = "T" /\ l[i].id = l[j].id

\* what a function's signature says: it converts, requires, produces
Converts(f) == ~PlainTwice(Tup(f.params)) /\ ~PlainTwice(f.ret)
Needs(f) == PlainIds(Tup(f.params))
Gives(f) == PlainIds(f.ret)

\* C1: whenever can_run holds for a transition (here: a converted function
\* whose non-optional parameters are all in the store), run executes the
\* callable once, returns Ok and never ends in the fatal missing-truth failure
C1_RunOkWhenCanRun ==
    (last.op = "run" /\ Converts(prog.fns[1])
        /\ Needs(prog.fns[1]) \subseteq DOMAIN last.pre)
    => (last.ret = "Ok" /\ Len(last.calls) = 1)

\* C2: run on a store lacking one of the required identifiers returns
\* MissingRequirement, invokes no callable and leaves the store as it was
C2_MissingRequirementNoEffect ==
    (last.op = "run" /\ Converts(prog.fns[1])
        /\ \E id \in Needs(prog.fns[1]) : id \notin DOMAIN last.pre)
    => (last.ret = "MissingRequirement" /\ last.calls = <<>> /\ state = last.pre)

C2_Witness ==
    /\ last.op = "run"
    /\ last.ret = "MissingRequirement"
    /\ DOMAIN state # {}
    /\ Needs(prog.fns[1]) = Ids

\* C3: can_run / can_run_transition* answer true exactly when every required
\* identifier is a key of the store, and do not change the store
C3_CanRunIffAllPresent ==
    (last.op \in {"can_run", "can_run_transition"} /\ Converts(prog.fns[1]))
    => /\ last.ret \in {"true", "false"}
       /\ (last.ret = "true") <=> (Needs(prog.fns[1]) \subseteq DOMAIN last.pre)
       /\ state = last.pre

C3_Witness ==
    /\ last.op = "can_run_transition"
    /\ last.ret = "true"
    /\ "A" \in Needs(prog.fns[1])
    /\ "A" \in DOMAIN state

\* C4: combine_requirements fails with UnsatisfiableReorder exactly when some
\* identifier is required by both operands and not produced by the first;
\* otherwise it succeeds
C4_UnsatisfiableReorderIff ==
    last.op = "combine"
    => /\ last.ret \in {"Ok", "UnsatisfiableReorder"}
       /\ (last.ret = "UnsatisfiableReorder")
            <=> (\E id \in FactTypes : /\ id \in input.requires1
                                       /\ id \in input.requires2
                                       /\ id \notin input.produces1)

\* f: (A) -> B composed with g: (A) -> C
C4_Witness ==
    /\ last.op = "combine"
    /\ input = [requires1 |-> {"A"}, produces1 |-> {"B"},
                requires2 |-> {"A"}, produces2 |-> {"C"}]
    /\ last.ret = "UnsatisfiableReorder"

\* C5: on success the merged requires set is first.requires united with
\* (second.requires minus first.produces)
C5_MergedRequires ==
    (last.op = "combine" /\ last.ret = "Ok")
    => \A id \in FactTypes :
          (id \in last.out.requires)
            <=> (id \in input.requires1
                    \/ (id \in input.requires2 /\ id \notin input.produces1))

\* f: () -> A composed with g: (A) -> B requires nothing
C5_Witness ==
    /\ last.op = "combine"
    /\ input = [requires1 |-> {}, produces1 |-> {"A"},
                requires2 |-> {"A"}, produces2 |-> {"B"}]
    /\ last.ret = "Ok"
    /\ last.out.requires = {}

\* C6: on success the merged produces set is second.produces united with
\* (first.produces minus second.requires)
C6_MergedProduces ==
    (last.op = "combine" /\ last.ret = "Ok")
    => \A id \in FactTypes :
          (id \in last.out.produces)
            <=> (id \in input.produces2
                    \/ (id \in input.produces1 /\ id \notin input.requires2))

\* f: () -> A composed with g: (A) -> A produces {A}
C6_Witness ==
    /\ last.op = "combine"
    /\ input = [requires1 |-> {}, produces1 |-> {"A"},
                requires2 |-> {"A"}, produces2 |-> {"A"}]
    /\ last.ret = "Ok"
    /\ last.out.produces = {"A"}

\* C7: an invocation of a composite (of any of the three variants) runs the
\* first operand's procedure once and then, on the store the first left, the
\* second operand's procedure once: the callables invoked and the final
\* store are those of the first function's procedure followed by the second's
\* (the second does not start when the first ended in the fatal failure)
C7_FirstThenSecond ==
    (last.op = "run_composite" /\ last.ret \in {"Ok", "Panic"})
    => LET a == FnProc(1, prog.fns[1],
                       [st |-> last.pre, calls |-> <<>>, panic |-> FALSE])
           b == IF a.panic THEN a ELSE FnProc(2, prog.fns[2], a)
       IN  /\ last.calls = b.calls
           /\ state = b.st
           /\ (last.ret = "Ok") <=> ~b.panic
           /\ last.ret = "Ok" =>
                [j \in 1..Len(last.calls) |-> last.calls[j].i] = <<1, 2>>

\* f: () -> A then g: (A) -> (): g is called with the A that f inserted
C7_Witness ==
    /\ last.op = "run_composite"
    /\ last.ret = "Ok"
    /\ "A" \notin DOMAIN last.pre
    /\ prog.fns[1].params = <<>>
    /\ prog.fns[2].params = <<T("A")>>
    /\ Len(last.calls) = 2
    /\ last.calls[1].i = 1
    /\ last.calls[2] = [i |-> 2, args |-> <<<<OutVal(0, 1)>>>>]

\* C8: required() fails with DuplicateRequirement exactly when an identifier
\* occurs twice among the non-optional parameters, left to right through
\* nested tuples; otherwise it is the set of their identifiers
C8_RequiredDuplicateIff ==
    last.op = "required"
    => /\ last.ret \in {"Ok", "DuplicateRequirement"}
       /\ (last.ret = "DuplicateRequirement") <=> PlainTwice(input.shape)
       /\ last.ret = "Ok" => last.out = PlainIds(input.shape)

\* fn(a: A, p: (Option<A>, A))
C8_Witness ==
    /\ last.op = "required"
    /\ input.shape = Tup(<<T("A"), Tup(<<Opt("A"), T("A")>>)>>)
    /\ last.ret = "DuplicateRequirement"

\* C9: produces() fails with DuplicateProduction exactly when an identifier
\* occurs twice among the non-optional elements of the return shape;
\* otherwise it is the set of their identifiers (empty for ())
C9_ProducesDuplicateIff ==
    last.op = "produces"
    => /\ last.ret \in {"Ok", "DuplicateProduction"}
       /\ (last.ret = "DuplicateProduction") <=> PlainTwice(input.shape)
       /\ last.ret = "Ok" => last.out = PlainIds(input.shape)
       /\ input.shape = Tup(<<>>) => (last.ret = "Ok" /\ last.out = {})

\* -> (A, A)
C9_Witness ==
    /\ last.op = "produces"
    /\ input.shape = Tup(<<T("A"), T("A")>>)
    /\ last.ret = "DuplicateProduction"

\* both operands require id and the first does not produce it
Unsatisfiable(f, g) == \E id \in Needs(f) \cap Needs(g) : id \notin Gives(f)

C11_RoundTripTakes ==
    [][/\ (last.op = "set_truth" /\ last'.op = "unset_truth" /\ last'.id = last.id)
            => /\ last'.ret = "Some"
               /\ last'.out = <<last.val>>
               /\ ~ContainsKey(state', last.id)
       /\ (last.op = "unset_truth" /\ last'.op = "has_truth" /\ last'.id = last.id)
            => last'.ret = "false"
       /\ (last.op = "unset_truth" /\ last'.op = "unset_truth" /\ last'.id = last.id)
            => (last'.ret = "None" /\ last'.out = <<>>)]_vars

\* a value stored by set_truth has been taken out
C11_Witness ==
    /\ last.op = "unset_truth"
    /\ last.id = "A"
    /\ last.ret = "Some"
    /\ last.out = <<MaxVal>>
    /\ ~ContainsKey(state, "A")

\* C12: unset_truth::<T>() on a store without T returns None, does not end
\* in the fatal failure and leaves the store as it was
C12_UnsetAbsentIsNone ==
    (last.op = "unset_truth" /\ ~ContainsKey(last.pre, last.id))
    => (last.ret = "None" /\ last.out = <<>> /\ state = last.pre)

\* the store of StateMachine::new() (nothing was set or produced before)
C12_Witness ==
    /\ last.op = "unset_truth"
    /\ last.pre = EmptyStore
    /\ last.ret = "None"

\* the n-th value (counting the values actually returned) of the function's
\* flat return tuple, and the position of the last returned value for id
Emitted(f, j) == f.ret.sub[j].k = "T" \/ f.emit
Target(f, j) == IF f.ret.sub[j].k = "T" THEN f.ret.sub[j].id ELSE f.ret.sub[j].sub[1].id
EmitIndex(f, j) == Cardinality({i \in 1..j : Emitted(f, i)})
Writers(f, id) == {j \in 1..Len(f.ret.sub) : Emitted(f, j) /\ Target(f, j) = id}
LastWriter(f, id) == CHOOSE j \in Writers(f, id) : \A i \in Writers(f, id) : i <= j

\* C13: the store holds one value per identifier, the one inserted last:
\* set_truth::<T>(v) leaves v under T whatever was there, a run leaves under
\* each returned type the value returned last for it, and a take hands out
\* that one value and leaves none
C13_LastInsertWins ==
    /\ last.op = "set_truth"
        => (ContainsKey(state, last.id) /\ state[last.id] = last.val)
    /\ (last.op = "run" /\ last.ret = "Ok")
        => \A id \in Ids :
              Writers(prog.fns[1], id) # {}
              => /\ ContainsKey(state, id)
                 /\ state[id] = OutVal(ArgSum(last.calls[1].args),
                                       EmitIndex(prog.fns[1], LastWriter(prog.fns[1], id)))
    /\ (last.op = "unset_truth" /\ ContainsKey(last.pre, last.id))
        => (last.out = <<last.pre[last.id]>> /\ ~ContainsKey(state, last.id))

\* set_truth over a different value
C13_Witness ==
    /\ last.op = "set_truth"
    /\ ContainsKey(last.pre, last.id)
    /\ last.pre[last.id] # last.val
    /\ state[last.id] = last.val

\* C14: set_truth::<T>, unset_truth::<T> and has_truth::<T> leave the
\* presence and the value of every other type U as they were
C14_OtherTypesUntouched ==
    last.op \in {"set_truth", "unset_truth", "has_truth"}
    => \A u \in Ids \ {last.id} :
          /\ ContainsKey(state, u) <=> ContainsKey(last.pre, u)
          /\ ContainsKey(last.pre, u) => state[u] = last.pre[u]

\* A is taken out while B is in the store
C14_Witness ==
    /\ last.op = "unset_truth"
    /\ last.id = "A"
    /\ last.ret = "Some"
    /\ ContainsKey(state, "B")

\* the store st with a under A (and b under B when b is given)
DocStore(a, b) ==
    IF Len(b) = 0 THEN [x \in {"A"} |-> a]
    ELSE [x \in {"A", "B"} |-> IF x = "A" THEN a ELSE b[1]]

\* C15: a run that returns Ok has invoked the callable once, with the values
\* the store held under its parameter types, and leaves the store without
\* the parameters and with the returned value under the result type; from
\* the empty store insert_a gives A(5), then add_one gives A(6), which
\* unset_truth hands out; insert_a, insert_b, combine give A(15)
C15_RunPassesAndStores ==
    /\ (last.op = "run" /\ last.ret = "Ok")
        => LET f == prog.fns[last.i]
               args == [j \in 1..Len(f.params) |-> <<last.pre[f.params[j].id]>>]
               taken == {f.params[j].id : j \in 1..Len(f.params)}
               given == f.ret.sub[1].id
           IN  /\ last.calls = <<[i |-> last.i, args |-> args]>>
               /\ DOMAIN state = (DOMAIN last.pre \ taken) \cup {given}
               /\ state[given] = ArgSum(args) + f.k
               /\ \A x \in DOMAIN state \ {given} : state[x] = last.pre[x]
    /\ (last.op = "run" /\ last.i = 1 /\ last.pre = EmptyStore)
        => state = DocStore(5, <<>>)
    /\ (last.op = "run" /\ last.i = 3 /\ last.pre = DocStore(5, <<>>))
        => state = DocStore(6, <<>>)
    /\ (last.op = "unset_truth" /\ last.id = "A" /\ last.pre = DocStore(6, <<>>))
        => (last.ret = "Some" /\ last.out = <<6>>)
    /\ (last.op = "run" /\ last.i = 2 /\ last.pre = DocStore(5, <<>>))
        => state = DocStore(5, <<10>>)
    /\ (last.op = "run" /\ last.i = 4 /\ last.pre = DocStore(5, <<10>>))
        => state = DocStore(15, <<>>)
    /\ (last.op = "unset_truth" /\ last.id = "A" /\ last.pre = DocStore(15, <<>>))
        => (last.ret = "Some" /\ last.out = <<15>>)

\* combine has run on A(5), B(10)
C15_Witness ==
    /\ last.op = "run"
    /\ last.i = 4
    /\ last.ret = "Ok"
    /\ last.calls = <<[i |-> 4, args |-> <<<<5>>, <<10>>>>]>>
    /\ state = DocStore(15, <<>>)

\* every parameter of f is an Option<T>
AllOption(f) ==
    Len(f.params) > 0 /\ \A j \in 1..Len(f.params) : f.params[j].k = "Opt"

\* what the j-th Option<T> parameter receives on store st: the value of T
\* when T is there and no earlier parameter took it, None otherwise
OptionArg(f, j, st) ==
    IF ContainsKey(st, f.params[j].id)
            /\ \A i \in 1..(j - 1) : f.params[i].id # f.params[j].id
    THEN <<st[f.params[j].id]>> ELSE <<>>

\* C16: a function whose parameters are all Option<T> can run on every store:
\* can_run is true, run returns Ok, the callable receives Some(v) for a T
\* that is present (and T leaves the store) and None for an absent T; the
\* store a run leaves is again one of these stores, on which a run right
\* after receives None for every T the function does not return itself
C16_AllOptionAlwaysRuns ==
    (Converts(prog.fns[1]) /\ AllOption(prog.fns[1]))
    => LET f == prog.fns[1]
       IN  /\ last.op \in {"can_run", "can_run_transition"} => last.ret = "true"
           /\ last.op = "run"
                => /\ last.ret = "Ok"
                   /\ last.calls = <<[i |-> 1,
                                      args |-> [j \in 1..Len(f.params) |->
                                                   OptionArg(f, j, last.pre)]]>>
                   /\ \A j \in 1..Len(f.params) :
                          Writers(f, f.params[j].id) = {}
                          => /\ ~ContainsKey(state, f.params[j].id)
                             /\ OptionArg(f, j, state) = <<>>

\* t_c: fn(Option<A>) has received Some and A is gone
C16_Witness ==
    /\ last.op = "run"
    /\ prog.fns[1].params = <<Opt("A")>>
    /\ prog.fns[1].ret = Tup(<<>>)
    /\ last.ret = "Ok"
    /\ last.calls = <<[i |-> 1, args |-> <<<<MaxVal>>>>]>>
    /\ ~ContainsKey(state, "A")

\* C17: over any sequence of operations the procedure of a TransitionOnce is
\* executed at most once: run and run_unchecked take the value, and once it
\* was executed the program no longer owns it
C17_OnceAtMostOnce ==
    /\ input.execs <= 1
    /\ input.execs = 1 => ~input.once
    /\ (last.op \in {"run", "run_unchecked"}) => ~input.once

\* the TransitionOnce was executed and is gone, and operations on the state
\* machine went on after it
C17_Witness ==
    /\ input.execs = 1
    /\ ~input.once
    /\ last.op = "run_ref_unchecked"
    /\ last.ret = "Ok"
    /\ Len(last.calls) = 1

UncheckedOps == {"run_unchecked", "run_ref_unchecked", "run_ref_mut_unchecked"}

\* C18: the unchecked runs start the procedure whatever the store holds;
\* when a non-optional parameter type is absent the execution ends in the
\* fatal failure, and the callable is not invoked
C18_UncheckedMissingIsFatal ==
    last.op \in UncheckedOps
    => /\ last.ret \in {"Ok", "Panic"}
       /\ (\E id \in Needs(prog.fns[1]) : ~ContainsKey(last.pre, id))
            => (last.ret = "Panic" /\ last.calls = <<>>)

\* fn(A, B) run unchecked on a store with A and without B
C18_Witness ==
    /\ last.op = "run_ref_mut_unchecked"
    /\ prog.fns[1].params = <<T("A"), T("B")>>
    /\ DOMAIN last.pre = {"A"}
    /\ last.ret = "Panic"
    /\ last.calls = <<>>

\* p is a proper prefix of q
Beneath(p, q) == Len(p) < Len(q) /\ SubSeq(q, 1, Len(p)) = p

\* the source dictionary holds at path q a transition that can run on st
RunnableAt(d, q, st) ==
    /\ GetDeep(d, q).val # <<>>
    /\ \A id \in GetDeep(d, q).val[1].requires : ContainsKey(st, id)

\* C19: the dictionary returned by runnable_transitions holds, at every key
\* path, the transition the source holds there when that transition can run
\* on the state machine's store, and nothing when the source holds none or
\* one that cannot run
C19_RunnablesAreExactlyTheRunnable ==
    last.op = "runnable_transitions"
    => \A q \in EntryPaths :
          /\ GetDeep(last.out, q).val # <<>> <=> RunnableAt(input.dict, q, state)
          /\ GetDeep(last.out, q).val # <<>>
                => GetDeep(last.out, q).val = GetDeep(input.dict, q).val

\* on a store without A: of the two entries of a folder, insert_a is kept
\* and use_a is not
C19_Witness ==
    /\ last.op = "runnable_transitions"
    /\ ~ContainsKey(state, "A")
    /\ GetDeep(input.dict, <<"k1", "k1">>).val # <<>>
    /\ GetDeep(input.dict, <<"k1", "k2">>).val # <<>>
    /\ GetDeep(last.out, <<"k1", "k1">>).val # <<>>
    /\ GetDeep(last.out, <<"k1", "k2">>).val = <<>>

\* C20: every folder of the dictionary returned by runnable_transitions, at
\* any depth, has a transition beneath it (which can run), and a folder of
\* the source with no transition that can run beneath it is not in the
\* result
C20_NoEmptyBranch ==
    last.op = "runnable_transitions"
    => \A p \in FolderPaths \ {<<>>} :
          /\ FolderAt(last.out, p) # <<>>
                => \E q \in EntryPaths :
                      /\ Beneath(p, q)
                      /\ GetDeep(last.out, q).val # <<>>
                      /\ RunnableAt(input.dict, q, state)
          /\ (FolderAt(input.dict, p) # <<>>
                    /\ \A q \in EntryPaths :
                          Beneath(p, q) => ~RunnableAt(input.dict, q, state))
                => FolderAt(last.out, p) = <<>>

\* on a store without A, a folder whose only content is a folder holding
\* use_a is dropped together with that folder
C20_Witness ==
    /\ last.op = "runnable_transitions"
    /\ ~ContainsKey(state, "A")
    /\ GetDeep(input.dict, <<"k1", "k2", "k1">>).val # <<>>
    /\ FolderAt(last.out, <<"k1">>) = <<>>
    /\ NoValues(last.out)

\* the other grouping
Other(side) == IF side = "left" THEN "right" ELSE "left"

\* C21: when both (f.and_then(g)).and_then(h) and f.and_then(g.and_then(h))
\* are built, running either from the same store ends the same way and
\* leaves the same store
C21_GroupingSameEffect ==
    (last.op = "run_triple" /\ last.out.ok)
    => \A v \in Variants :
          LET r == BuiltTriple(Other(last.out.side), v)
              o == RunOutcome(r, last.pre)
          IN  r.ok => (o.ret = last.ret /\ o.st = state /\ o.calls = last.calls)

\* f: () -> A, g: (A) -> (), h: () -> B, built in both groupings and run
C21_Witness ==
    /\ last.op = "run_triple"
    /\ last.ret = "Ok"
    /\ BuiltTriple("left", "Fn").ok
    /\ BuiltTriple("right", "Fn").ok
    /\ prog.fns[1].ret = Tup(<<T("A")>>)
    /\ prog.fns[2].params = <<T("A")>>
    /\ prog.fns[3].ret = Tup(<<T("B")>>)
    /\ Len(last.calls) = 3
    /\ DOMAIN state = {"B"}

\* C22: a transition converts into its own variant unchanged and into the
\* later variants (Fn -> FnMut -> FnOnce) with the same requires set, and the
\* run of the converted transition has the effect of the run of the original
C22_ConversionKeepsMeaning ==
    last.op = "run_converted"
    => LET orig == Built(last.out.from)
           c == last.out.t
           o == RunOutcome(orig, last.pre)
       IN  /\ c.ok
           /\ c.t.requires = orig.t.requires
           /\ o.ret = last.ret /\ o.st = state /\ o.calls = last.calls
           /\ (last.out.from = last.out.to => c.t = orig.t)

\* f: () -> A then g: (A) -> B built as TransitionMut, converted into a
\* TransitionOnce and run on the empty store
C22_Witness ==
    /\ last.op = "run_converted"
    /\ last.out.from = "FnMut" /\ last.out.to = "FnOnce"
    /\ last.out.t.t.func[1] = "wrap"
    /\ last.ret = "Ok"
    /\ Len(last.calls) = 2
    /\ DOMAIN last.pre = {}
    /\ DOMAIN state = {"B"}

\* every leaf of the shape is a plain Truth type
AllPlain(node) ==
    LET l == LeafSeq(node) IN \A j \in 1..Len(l) : l[j].k = "T"

\* C23: for a function with distinct non-optional parameters R and
\* non-optional outputs P, a successful run from a store with keys S ends
\* with keys (S minus R) united with P, and the facts outside R and P keep
\* their values
C23_PlainKeyEffect ==
    (/\ last.op = "run" /\ last.ret = "Ok"
     /\ AllPlain(Tup(prog.fns[1].params)) /\ AllPlain(prog.fns[1].ret))
    => LET R == Needs(prog.fns[1])
           P == Gives(prog.fns[1])
       IN  /\ R \subseteq DOMAIN last.pre
           /\ DOMAIN state = (DOMAIN last.pre \ R) \cup P
           /\ \A id \in DOMAIN last.pre \ (R \cup P) : state[id] = last.pre[id]

\* f: (A) -> A run on the store {A, B: 1}
C23_Witness ==
    /\ last.op = "run" /\ last.ret = "Ok"
    /\ prog.fns[1].params = <<T("A")>>
    /\ prog.fns[1].ret = Tup(<<T("A")>>)
    /\ DOMAIN last.pre = {"A", "B"} /\ last.pre["B"] = 1
    /\ DOMAIN state = {"A", "B"} /\ state["B"] = 1

\* both functions of the program have plain parameters and plain outputs only
PlainPair ==
    \A i \in 1..2 : AllPlain(Tup(prog.fns[i].params)) /\ AllPlain(prog.fns[i].ret)

\* C24: after a successful run of a composite every identifier of its merged
\* produces set is in the store, also when the second half has Option
\* parameters
C24_ProducedIsPresent ==
    (last.op = "run_composite" /\ last.ret = "Ok")
    => \A v \in Variants : Built(v).t.produces \subseteq DOMAIN state

\* C25: for plain functions f and g whose and_then succeeds, a run on a store
\* holding the merged requires set calls f and then g, and neither extraction
\* fails
C25_PlainCompositeIsSound ==
    (/\ last.op = "run_composite" /\ PlainPair
     /\ \A v \in Variants : Built(v).ok /\ Built(v).t.requires \subseteq DOMAIN last.pre)
    => (last.ret = "Ok" /\ Len(last.calls) = 2)

\* f: () -> A then g: (A) -> () run on the empty store: g finds the A of f
C25_Witness ==
    /\ last.op = "run_composite" /\ last.ret = "Ok"
    /\ PlainPair
    /\ prog.fns[1].ret = Tup(<<T("A")>>)
    /\ prog.fns[2].params = <<T("A")>>
    /\ DOMAIN last.pre = {}
    /\ Len(last.calls) = 2

\* C28: after a successful run of a composite of plain functions, a fact that
\* was present before and whose identifier is in neither the merged requires
\* nor the merged produces set is present with the value it had
C28_CompositeFrame ==
    (last.op = "run_composite" /\ last.ret = "Ok" /\ PlainPair)
    => \A v \in Variants :
          \A id \in DOMAIN last.pre \ (Built(v).t.requires \cup Built(v).t.produces) :
              id \in DOMAIN state /\ state[id] = last.pre[id]

\* the three functions of the program have plain parameters and outputs only
PlainTriple ==
    \A i \in 1..3 : AllPlain(Tup(prog.fns[i].params)) /\ AllPlain(prog.fns[i].ret)

\* C26: for plain functions f, g, h, when (f.and_then(g)).and_then(h) is
\* built and the store holds its merged requires set, the run never ends in
\* the fatal missing-truth failure
C26_NestedCompositeIsSound ==
    (/\ last.op = "run_triple" /\ last.out.side = "left" /\ last.out.ok
     /\ PlainTriple
     /\ last.out.requires \subseteq DOMAIN last.pre)
    => last.ret # "Panic"

\* C29: for plain functions f, g, h, (f.and_then(g)).and_then(h) is built
\* exactly when f.and_then(g.and_then(h)) is, and when both are built their
\* requires sets and their produces sets are equal
C29_GroupingSameValidation ==
    (last.op = "compose" /\ PlainTriple)
    => \A v \in Variants :
          LET o == Summary(Other(last.out.side), BuiltTriple(Other(last.out.side), v))
          IN  /\ o.ok = last.out.ok
              /\ o.requires = last.out.requires
              /\ o.produces = last.out.produces

\* C27: a function taking T and Option<T> for one type T, in either order,
\* converts with requires = {T}, and its checked run on a store holding T
\* completes without the fatal missing-truth failure
C27_MixedOptionPlainIsSafe ==
    \A id \in Ids :
        (/\ last.op = "run"
         /\ prog.fns[1].params \in {<<T(id), Opt(id)>>, <<Opt(id), T(id)>>}
         /\ ~PlainTwice(prog.fns[1].ret)
         /\ ContainsKey(last.pre, id))
        => LET c == IntoTransitionFn(1, prog.fns[1])
           IN  c.ok /\ c.t.requires = {id} /\ last.ret = "Ok"

ConversionErrors(f) ==
    {e \in Errors :
        \/ e = "DuplicateRequirement" /\ PlainTwice(Tup(f.params))
        \/ e = "DuplicateProduction" /\ PlainTwice(f.ret)}

TakenIds(f) == {f.params[j].id : j \in 1..Len(f.params)}

\* C32: after a successful run, a type no present output element addresses
\* (the function returned (), or None for its Option outputs) is in the store
\* exactly when it was there and no parameter took it, with its old value;
\* a type addressed by present elements holds the value of the rightmost one
C32_InsertionLeftToRight ==
    (last.op = "run" /\ last.ret = "Ok")
    => LET f == prog.fns[1]
       IN  \A id \in Ids :
              IF Writers(f, id) = {}
              THEN /\ ContainsKey(state, id)
                        <=> (ContainsKey(last.pre, id) /\ id \notin TakenIds(f))
                   /\ ContainsKey(state, id) => state[id] = last.pre[id]
              ELSE /\ ContainsKey(state, id)
                   /\ state[id] = ReturnValue(f, last.calls[1].args)
                                        [EmitIndex(f, LastWriter(f, id))]

\* f: () -> Option<A> returning None on a store holding A = 1
C32_Witness ==
    /\ last.op = "run" /\ last.ret = "Ok"
    /\ prog.fns[1].params = <<>>
    /\ prog.fns[1].ret = Tup(<<OptR(T("A"))>>)
    /\ ~prog.fns[1].emit
    /\ ContainsKey(last.pre, "A") /\ last.pre["A"] = 1
    /\ ContainsKey(state, "A") /\ state["A"] = 1

\* f: () -> (A, Option<A>) returning Some: the value of the Option remains
C32_WitnessRightmost ==
    /\ last.op = "run" /\ last.ret = "Ok"
    /\ prog.fns[1].params = <<>>
    /\ prog.fns[1].ret = Tup(<<T("A"), OptR(T("A"))>>)
    /\ prog.fns[1].emit
    /\ state["A"] = ReturnValue(prog.fns[1], <<>>)[2]
    /\ state["A"] # ReturnValue(prog.fns[1], <<>>)[1]

\* what holds of a required type while it is absent: can_run answers false,
\* a checked run returns MissingRequirement and changes nothing
AbsentBlocks(id) ==
    LET f == prog.fns[1]
    IN  /\ (/\ last.op \in {"can_run", "can_run_transition"} /\ Converts(f)
             /\ id \in Needs(f) /\ ~ContainsKey(last.pre, id))
            => last.ret = "false"
        /\ (/\ last.op = "run" /\ Converts(f)
             /\ id \in Needs(f) /\ ~ContainsKey(last.pre, id))
            => (last.ret = "MissingRequirement" /\ state = last.pre
                    /\ last.calls = <<>>)

\* C33, as stated: after a successful run of a transition that requires A and
\* whose produces set does not hold A, A is absent; while A is absent can_run
\* of a transition requiring A is false and its checked run returns
\* MissingRequirement; A comes back only by set_truth or by the run of a
\* transition whose produces set holds A
C33_ConsumedUntilProduced ==
    \A id \in Ids :
        LET f == prog.fns[1]
        IN  /\ (/\ last.op = "run" /\ last.ret = "Ok"
                 /\ id \in Needs(f) /\ id \notin Gives(f))
                => ~ContainsKey(state, id)
            /\ AbsentBlocks(id)
            /\ (~ContainsKey(last.pre, id) /\ ContainsKey(state, id))
                => \/ last.op = "set_truth" /\ last.id = id
                   \/ last.op = "run" /\ last.ret = "Ok" /\ id \in Gives(f)

\* C33, amended: the same with "returns no A" (no A output and no Option<A>
\* output that is Some) in the place of "does not produce A", and "returns
\* A" in the place of "produces A"
C33_ConsumedUntilReturned ==
    \A id \in Ids :
        LET f == prog.fns[1]
        IN  /\ (/\ last.op = "run" /\ last.ret = "Ok"
                 /\ id \in Needs(f) /\ Writers(f, id) = {})
                => ~ContainsKey(state, id)
            /\ AbsentBlocks(id)
            /\ (~ContainsKey(last.pre, id) /\ ContainsKey(state, id))
                => \/ last.op = "set_truth" /\ last.id = id
                   \/ last.op = "run" /\ last.ret = "Ok" /\ Writers(f, id) # {}

\* f: (A) -> Option<A> returned None: A has been consumed
C33_Witness ==
    /\ last.op = "run" /\ last.ret = "Ok"
    /\ prog.fns[1].params = <<T("A")>>
    /\ prog.fns[1].ret = Tup(<<OptR(T("A"))>>)
    /\ ~prog.fns[1].emit
    /\ ContainsKey(last.pre, "A")
    /\ ~ContainsKey(state, "A")

\* a further checked run of f: (A) -> () on the store without A
C33_WitnessBlocked ==
    /\ last.op = "run" /\ last.ret = "MissingRequirement"
    /\ prog.fns[1].params = <<T("A")>>
    /\ prog.fns[1].ret = Tup(<<>>)
    /\ ~ContainsKey(state, "A")

\* C34: every call run(key, state_machine) on a dictionary returned by
\* runnable_transitions, a second or later call included, finds the required
\* truths of the transition it executes in the store and does not end in the
\* fatal missing-truth failure
C34_RunnableStaysSafe ==
    (last.op = "dict_run" /\ last.out.key \in DOMAIN input.held[1].entries)
    => /\ input.held[1].entries[last.out.key].requires \subseteq DOMAIN last.pre
       /\ last.ret # "Panic"

\* C35: run(key, state_machine) on a runnable subset returns None and leaves
\* the store as it was when key is not one of its top-level entries, and
\* returns Some(()) after one execution of the transition when it is
C35_RunNoneOrSome ==
    last.op = "dict_run"
    => IF last.out.key \in DOMAIN input.held[1].entries
       THEN last.ret = "Some" /\ Len(last.calls) = 1
       ELSE last.ret = "None" /\ state = last.pre /\ last.calls = <<>>

\* C36: add_transition(key, f) returns the conversion error of f and leaves
\* the dictionary as it was when f does not convert; otherwise it stores the
\* transition of f under key, returns what was stored there before (None if
\* nothing was) and leaves every other entry and every folder as it was
C36_AddTransitionReplaces ==
    last.op = "add_transition"
    => LET f == prog.fns[last.i]
           b == last.out.before
           d == input.dict
           p == Append(last.out.path, last.out.key)
       IN  IF ~Converts(f)
           THEN last.ret \in ConversionErrors(f) /\ d = b
           ELSE /\ last.ret = "Ok"
                /\ last.out.old = GetDeep(b, p).val
                /\ GetDeep(d, p).val # <<>>
                /\ GetDeep(d, p).val[1].func = <<"fn", last.i, f>>
                /\ GetDeep(d, p).val[1].requires = Needs(f)
                /\ \A q \in EntryPaths \ {p} : GetDeep(d, q) = GetDeep(b, q)
                /\ \A q \in FolderPaths :
                        (FolderAt(d, q) = <<>>) <=> (FolderAt(b, q) = <<>>)

\* add_transition over a different transition, in a folder
C36_Witness ==
    /\ last.op = "add_transition" /\ last.ret = "Ok"
    /\ last.out.path = <<"k1">>
    /\ last.out.old # <<>>
    /\ last.out.old # GetDeep(input.dict, Append(last.out.path, last.out.key)).val

\* add_transition of fn twice(a: A, b: A) on a dictionary that holds an entry
C36_WitnessError ==
    /\ last.op = "add_transition" /\ last.ret = "DuplicateRequirement"
    /\ ~NoValues(input.dict)

\* the key path resolves to an entry of the dictionary: its last key is an
\* entry of the folder that the keys before it lead to
Resolves(d, keys) ==
    /\ Len(keys) > 0
    /\ FolderAt(d, SubSeq(keys, 1, Len(keys) - 1)) # <<>>
    /\ keys[Len(keys)] \in
            DOMAIN FolderAt(d, SubSeq(keys, 1, Len(keys) - 1))[1].entries

\* the entry the key path resolves to
EntryAt(d, keys) ==
    FolderAt(d, SubSeq(keys, 1, Len(keys) - 1))[1].entries[keys[Len(keys)]]

\* the two dictionaries hold the same entries at the key paths of the set,
\* and the same folders
SameEntries(d, b, paths) ==
    \A q \in paths :
        /\ Resolves(d, q) <=> Resolves(b, q)
        /\ Resolves(d, q) => EntryAt(d, q) = EntryAt(b, q)
SameFolders(d, b) ==
    \A q \in ReachPaths : (FolderAt(d, q) = <<>>) <=> (FolderAt(b, q) = <<>>)

\* C37: for every non-empty key path p, has_deep(p) is true exactly when
\* get_deep(p) is Some; remove_deep(p) returns the value get_deep(p) held,
\* after it has_deep(p) is false and every other path is as before; insert
\* and remove leave the folders, insert_folder and remove_folder leave the
\* entries stored under the same key as they were
C37_PathOperationsAgree ==
    LET d == input.dict
    IN  /\ \A p \in KeyPaths \ {<<>>} :
                /\ HasDeep(d, p).val <=> (GetDeep(d, p).val # <<>>)
                /\ HasDeep(d, p).val <=> Resolves(d, p)
                /\ Resolves(d, p) => GetDeep(d, p).val = <<EntryAt(d, p)>>
        /\ (last.op = "remove_deep" /\ last.out.path # <<>>)
            => /\ last.out.val = GetDeep(last.out.before, last.out.path).val
               /\ ~HasDeep(d, last.out.path).val
               /\ SameEntries(d, last.out.before, KeyPaths \ {last.out.path})
               /\ SameFolders(d, last.out.before)
        /\ last.op \in {"insert", "remove"}
            => /\ SameFolders(d, last.out.before)
               /\ SameEntries(d, last.out.before,
                              KeyPaths \ {Append(last.out.path, last.out.key)})
        /\ last.op \in {"insert_folder", "remove_folder"}
            => SameEntries(d, last.out.before,
                           {q \in KeyPaths :
                               ~Beneath(Append(last.out.path, last.out.key), q)})

\* remove_deep of an entry of a folder that has an entry and a folder under
\* one key beside it
C37_Witness ==
    /\ last.op = "remove_deep"
    /\ last.out.path = <<"k1", "k1">>
    /\ last.ret = "Some"
    /\ Resolves(input.dict, <<"k1">>)
    /\ FolderAt(input.dict, <<"k1">>) # <<>>
    /\ ~Resolves(input.dict, <<"k1", "k1">>)

\* C38: get_deep, get_deep_mut, has_deep and remove_deep return None or
\* false, without failing, for every key path that does not resolve to an
\* entry, the empty path and a path through a key that is not a folder
\* included
C38_UnresolvedIsNone ==
    (/\ last.op \in {"get_deep", "get_deep_mut", "has_deep", "remove_deep"}
     /\ ~Resolves(last.out.before, last.out.path))
    => (last.ret \in {"None", "false"} /\ input.dict = last.out.before)

====
